---- MODULE Spec2Model ----
(***************************************************************************)
(* The ingest engine of cpp-ingester: the SPSC ring buffers               *)
(* (ring_buffer.h), the stream consumer that fans decoded entries out      *)
(* round-robin (redis_consumer.cpp), the writer pool's batch / retry /     *)
(* flush loop (clickhouse_writer.cpp) and the orchestrator (main.cpp).     *)
(*                                                                         *)
(* Spec     the whole ingester, one run of the process against an upstream *)
(*          stream left in any state by earlier (possibly killed) runs.    *)
(* SpecRB   one ring buffer in isolation, one producer and one consumer.   *)
(* FairSpec Spec with weakly fair scheduling of the threads.               *)
(* SpecRestart  Spec started with a non-empty pending list.                *)
(* SpecParse    Spec in runs where parse_message may throw.                *)
(* SpecRBSize   SpecRB with a third thread that calls size().              *)
(* SpecCtor     the constructor of one ring buffer.                        *)
(* SpecBatch    Spec with one worker and a ring buffer of capacity 4.      *)
(* SpecDispatch read_batch, then recover_pending on the same reply and     *)
(*          the same ring buffers, no worker running.                      *)
(***************************************************************************)
EXTENDS Integers, Sequences, FiniteSets, TLC

(* ------------------------------ bounds -------------------------------- *)
\* Config::writer_threads is drawn from 1..MaxWriterThreads (default 4).
MaxWriterThreads == 2
\* Config::ring_buffer_size, scaled down (default 100000).
ring_buffer_size == 2
\* Config::read_batch_size, scaled down (default 1000).
read_batch_size == 2
\* Number of messages in the upstream stream.
MaxMsgs == 3
\* Config::batch_size is drawn from 0..MaxBatchSize (default 10000).
MaxBatchSize == 2
\* SpecRB: requested capacities 1..MaxRingRequest, items 1..MaxItems.
MaxRingRequest == 4
MaxItems == 4
\* The database refuses at most MaxInsertFailures inserts in a run and the
\* upstream loses at most MaxAckFailures acknowledgment commands.
MaxInsertFailures == 3
MaxAckFailures == 1
\* parse_message throws for at most MaxParseFailures messages in a run.
MaxParseFailures == 1
\* The constructor is given the capacities 0..MaxCtorArg and the default.
MaxCtorArg == 130
\* the ring buffer size asked for where a ring buffer must hold a whole batch and more
LargeRingRequest == 3
\* Config::ring_buffer_size as shipped (config.h:30).
default_ring_buffer_size == 100000

MsgIds == 1 .. MaxMsgs

(* ------------------------------ LogEntry ------------------------------ *)
\* The allowed levels of the ClickHouse enum (redis_consumer.cpp:239-240).
AllowedLevels == {"DEBUG", "INFO", "WARN", "ERROR", "FATAL"}

\* A default-constructed / moved-from LogEntry: every string empty.
\* redis_id 0 stands for the empty string.
EmptyEntry == [redis_id |-> 0, level |-> ""]

\* The level text found in the payload of upstream message m ("" = absent).
PayloadLevel(m) ==
    CASE m = 1 -> "ERROR"
      [] m = 2 -> "VERBOSE"
      [] m = 3 -> ""
      [] OTHER -> "INFO"

\* Faulty variant: the level of the payload is taken as it is.
parse_message_NoCoercion(m) == [redis_id |-> m, level |-> PayloadLevel(m)]

parse_message(m) ==
    [redis_id |-> m,
     level    |-> IF PayloadLevel(m) = "" \/ PayloadLevel(m) \notin AllowedLevels
                  THEN "INFO" ELSE PayloadLevel(m)]

(* --------------------------- size_t arithmetic ------------------------ *)
Shr(n, k) == IF k >= 31 THEN 0 ELSE n \div (2 ^ k)

RECURSIVE BitOr(_, _)
BitOr(a, b) ==
    IF a = 0 THEN b
    ELSE IF b = 0 THEN a
    ELSE (IF a % 2 = 1 \/ b % 2 = 1 THEN 1 ELSE 0) + 2 * BitOr(a \div 2, b \div 2)

RECURSIVE BitAnd(_, _)
BitAnd(a, b) ==
    IF a = 0 \/ b = 0 THEN 0
    ELSE (IF a % 2 = 1 /\ b % 2 = 1 THEN 1 ELSE 0) + 2 * BitAnd(a \div 2, b \div 2)

\* n--, the six shift-or steps, n + 1.  For n = 0 the decrement wraps to
\* 2^64 - 1, the smear keeps it and the increment wraps to 0.
next_power_of_2(n) ==
    IF n = 0 THEN 0
    ELSE LET n0 == n - 1
             n1 == BitOr(n0, Shr(n0, 1))
             n2 == BitOr(n1, Shr(n1, 2))
             n3 == BitOr(n2, Shr(n2, 4))
             n4 == BitOr(n3, Shr(n3, 8))
             n5 == BitOr(n4, Shr(n4, 16))
             n6 == BitOr(n5, Shr(n5, 32))
         IN  n6 + 1

\* a - b on size_t; a wrapped difference is a huge value (the model's
\* integers have 32 bits, so 2^31 stands for 2^64).
SizeSub(a, b) == IF a >= b THEN a - b ELSE 2147483647 - (b - a) + 1

Min(a, b) == IF a < b THEN a ELSE b

VARIABLES
    \* configuration (constant during a run)
    batch_size, writer_threads, capacity_,
    \* LockFreeRingBuffer, one per worker
    head_, tail_, buffer_,
    \* the upstream stream: consumer-group cursor and pending list
    last_delivered, pending,
    \* main thread: orchestrator and RedisConsumer
    mainpc, mode, reply, entry, start_idx, current_buffer_idx_, count,
    p_head, p_next_head, push_ret, messages_read_,
    g_running, consumer_running, writer_running,
    \* worker threads
    wpc, batch, popped, retries, site,
    c_tail, c_head, c_count, c_current, c_k, c_max, c_item,
    \* ClickHouseWriter statistics
    logs_written_, batches_written_, errors_,
    \* history
    pushed, inserted, flushed, discarded, attempts, reconnects,
    rr_window, skipped, ack_failures, acked, pending_at_start,
    \* the capacity asked of the LockFreeRingBuffer constructor
    requested,
    \* RedisConsumer::parse_errors_
    parse_errors_,
    \* a thread calling size() on buffer 0: position, head read, result
    s_pc, s_head, s_ret,
    \* history: the reply to XGROUP CREATE, the number of recover_pending
    \* calls, the workers whose initial connect failed
    group_reply, recover_calls, connect_failed,
    \* RedisConsumer::write_mutex_ (its holder), the ids vector a worker
    \* hands to on_flush, and (history) the number of batches given up
    write_mutex_, ids, discards,
    \* where read_batch and recover_pending are run on the same reply: the
    \* input of the two calls and what the first of them did
    probe

cfgVars  == <<batch_size, writer_threads, capacity_>>
ringVars == <<head_, tail_, buffer_>>
upVars   == <<last_delivered, pending>>
prodVars == <<p_head, p_next_head, push_ret>>
mainVars == <<mainpc, mode, reply, entry, start_idx, current_buffer_idx_, count,
              messages_read_, g_running, consumer_running, writer_running>>
popVars  == <<c_tail, c_head, c_count, c_current, c_k, c_max, c_item>>
workVars == <<wpc, batch, popped, retries, site>>
statVars == <<logs_written_, batches_written_, errors_>>
histVars == <<pushed, inserted, flushed, discarded, attempts, reconnects,
              rr_window, skipped, ack_failures, acked, pending_at_start>>

sizeVars == <<s_pc, s_head, s_ret>>
ackVars  == <<write_mutex_, ids, discards>>
extVars  == <<requested, parse_errors_, sizeVars, group_reply, recover_calls,
              connect_failed, ackVars, probe>>

vars == <<cfgVars, ringVars, upVars, prodVars, mainVars, popVars, workVars,
          statVars, histVars, extVars>>

mask_ == capacity_ - 1

\* The worker threads, and the ring buffers main creates for them.
Workers == 0 .. (writer_threads - 1)

(* ====================================================================== *)
(*                       LockFreeRingBuffer (ring_buffer.h)               *)
(* ====================================================================== *)

(* ---- try_push, called by the main thread on buffer current_buffer_idx_ *)

\* const size_t head = head_.load(relaxed); next_head = (head + 1) & mask_
TP_LoadHead ==
    /\ mainpc = "tp_load_head"
    /\ p_head' = head_[current_buffer_idx_]
    /\ p_next_head' = BitAnd(head_[current_buffer_idx_] + 1, mask_)
    /\ mainpc' = "tp_load_tail"
    /\ UNCHANGED <<cfgVars, extVars, ringVars, upVars, push_ret, mode, reply, entry,
                   start_idx, current_buffer_idx_, count, messages_read_,
                   g_running, consumer_running, writer_running, popVars,
                   workVars, statVars, histVars>>

\* Faulty variant: the full test is missing.
TP_LoadTail_NoFullCheck ==
    /\ mainpc = "tp_load_tail"
    /\ IF FALSE
       THEN /\ push_ret' = FALSE
            /\ mainpc' = "tp_ret"
       ELSE /\ push_ret' = push_ret
            /\ mainpc' = "tp_write"
    /\ UNCHANGED <<cfgVars, extVars, ringVars, upVars, p_head, p_next_head, mode, reply,
                   entry, start_idx, current_buffer_idx_, count, messages_read_,
                   g_running, consumer_running, writer_running, popVars,
                   workVars, statVars, histVars>>

\* Faulty variant: a full buffer makes try_push start over until the consumer
\* has made room.
TP_LoadTail_Retry ==
    /\ mainpc = "tp_load_tail"
    /\ IF p_next_head = tail_[current_buffer_idx_]
       THEN /\ push_ret' = FALSE
            /\ mainpc' = "tp_load_head"
       ELSE /\ push_ret' = push_ret
            /\ mainpc' = "tp_write"
    /\ UNCHANGED <<cfgVars, extVars, ringVars, upVars, p_head, p_next_head, mode, reply,
                   entry, start_idx, current_buffer_idx_, count, messages_read_,
                   g_running, consumer_running, writer_running, popVars,
                   workVars, statVars, histVars>>

\* Faulty variant: the full test looks one slot further than next_head.
TP_LoadTail_OneSlotFurther ==
    /\ mainpc = "tp_load_tail"
    /\ IF BitAnd(p_next_head + 1, mask_) = tail_[current_buffer_idx_]
       THEN /\ push_ret' = FALSE
            /\ mainpc' = "tp_ret"
       ELSE /\ push_ret' = push_ret
            /\ mainpc' = "tp_write"
    /\ UNCHANGED <<cfgVars, extVars, ringVars, upVars, p_head, p_next_head, mode, reply,
                   entry, start_idx, current_buffer_idx_, count, messages_read_,
                   g_running, consumer_running, writer_running, popVars,
                   workVars, statVars, histVars>>

\* if (next_head == tail_.load(acquire)) return false;
TP_LoadTail ==
    /\ mainpc = "tp_load_tail"
    /\ IF p_next_head = tail_[current_buffer_idx_]
       THEN /\ push_ret' = FALSE
            /\ mainpc' = "tp_ret"
       ELSE /\ push_ret' = push_ret
            /\ mainpc' = "tp_write"
    /\ UNCHANGED <<cfgVars, extVars, ringVars, upVars, p_head, p_next_head, mode, reply,
                   entry, start_idx, current_buffer_idx_, count, messages_read_,
                   g_running, consumer_running, writer_running, popVars,
                   workVars, statVars, histVars>>

\* Faulty variant: the item is installed at next_head instead of head.
TP_WriteSlot_NextSlot ==
    /\ mainpc = "tp_write"
    /\ buffer_' = [buffer_ EXCEPT ![current_buffer_idx_][p_next_head] = entry]
    /\ entry' = EmptyEntry
    /\ mainpc' = "tp_store"
    /\ UNCHANGED <<cfgVars, extVars, head_, tail_, upVars, prodVars, mode, reply,
                   start_idx, current_buffer_idx_, count, messages_read_,
                   g_running, consumer_running, writer_running, popVars,
                   workVars, statVars, pushed, inserted, flushed, discarded,
                   attempts, reconnects, rr_window, skipped, ack_failures, acked, pending_at_start>>

\* buffer_[head] = std::move(item);  the caller's item is left moved-from
TP_WriteSlot ==
    /\ mainpc = "tp_write"
    /\ buffer_' = [buffer_ EXCEPT ![current_buffer_idx_][p_head] = entry]
    /\ entry' = EmptyEntry
    /\ mainpc' = "tp_store"
    /\ UNCHANGED <<cfgVars, extVars, head_, tail_, upVars, prodVars, mode, reply,
                   start_idx, current_buffer_idx_, count, messages_read_,
                   g_running, consumer_running, writer_running, popVars,
                   workVars, statVars, pushed, inserted, flushed, discarded,
                   attempts, reconnects, rr_window, skipped, ack_failures, acked, pending_at_start>>

\* head_.store(next_head, release); return true;
TP_StoreHead ==
    /\ mainpc = "tp_store"
    /\ head_' = [head_ EXCEPT ![current_buffer_idx_] = p_next_head]
    /\ push_ret' = TRUE
    /\ pushed' = [pushed EXCEPT ![current_buffer_idx_] =
                      Append(@, buffer_[current_buffer_idx_][p_head])]
    /\ mainpc' = "tp_ret"
    /\ UNCHANGED <<cfgVars, extVars, tail_, buffer_, upVars, p_head, p_next_head, mode,
                   reply, entry, start_idx, current_buffer_idx_, count,
                   messages_read_, g_running, consumer_running, writer_running,
                   popVars, workVars, statVars, inserted, flushed, discarded,
                   attempts, reconnects, rr_window, skipped, ack_failures, acked, pending_at_start>>

try_push == TP_LoadHead \/ TP_LoadTail \/ TP_WriteSlot \/ TP_StoreHead

(* ---- pop_batch(out, max_count), called by worker i on its own buffer,  *)
(* ---- out = batch[i], max_count = c_max[i]                              *)

\* const size_t tail = tail_.load(relaxed);
PB_LoadTail(i) ==
    /\ wpc[i] = "pb_load_tail"
    /\ c_tail' = [c_tail EXCEPT ![i] = tail_[i]]
    /\ wpc' = [wpc EXCEPT ![i] = "pb_load_head"]
    /\ UNCHANGED <<cfgVars, extVars, ringVars, upVars, prodVars, mainVars, c_head,
                   c_count, c_current, c_k, c_max, c_item, batch, popped,
                   retries, site, statVars, histVars>>

\* the number of items pop_batch computes for the cursors it loaded
Available(head, tail) ==
    IF head < tail THEN capacity_ - tail + head
    ELSE BitAnd(SizeSub(head, tail), mask_)

\* Faulty variant: count = available, max_count is ignored.
PB_LoadHead_IgnoresMax(i) ==
    /\ wpc[i] = "pb_load_head"
    /\ c_head' = [c_head EXCEPT ![i] = head_[i]]
    /\ IF c_tail[i] = head_[i]
       THEN /\ popped' = [popped EXCEPT ![i] = 0]
            /\ wpc' = [wpc EXCEPT ![i] = "pb_ret"]
            /\ UNCHANGED <<c_count, c_current, c_k>>
       ELSE /\ c_count' = [c_count EXCEPT ![i] =
                              Available(head_[i], c_tail[i])]
            /\ c_current' = [c_current EXCEPT ![i] = c_tail[i]]
            /\ c_k' = [c_k EXCEPT ![i] = 0]
            /\ wpc' = [wpc EXCEPT ![i] = "pb_move"]
            /\ UNCHANGED popped
    /\ UNCHANGED <<cfgVars, extVars, ringVars, upVars, prodVars, mainVars, c_tail,
                   c_max, c_item, batch, retries, site, statVars, histVars>>

\* Faulty variant: available is taken one too large, so the slot at head is
\* counted among the items.
PB_LoadHead_OneTooMany(i) ==
    /\ wpc[i] = "pb_load_head"
    /\ c_head' = [c_head EXCEPT ![i] = head_[i]]
    /\ IF c_tail[i] = head_[i]
       THEN /\ popped' = [popped EXCEPT ![i] = 0]
            /\ wpc' = [wpc EXCEPT ![i] = "pb_ret"]
            /\ UNCHANGED <<c_count, c_current, c_k>>
       ELSE /\ c_count' = [c_count EXCEPT ![i] =
                              Min(Available(head_[i], c_tail[i]) + 1, c_max[i])]
            /\ c_current' = [c_current EXCEPT ![i] = c_tail[i]]
            /\ c_k' = [c_k EXCEPT ![i] = 0]
            /\ wpc' = [wpc EXCEPT ![i] = "pb_move"]
            /\ UNCHANGED popped
    /\ UNCHANGED <<cfgVars, extVars, ringVars, upVars, prodVars, mainVars, c_tail,
                   c_max, c_item, batch, retries, site, statVars, histVars>>

\* head = head_.load(acquire); if (tail == head) return 0;
\* available, count = min(available, max_count), current = tail
PB_LoadHead(i) ==
    /\ wpc[i] = "pb_load_head"
    /\ c_head' = [c_head EXCEPT ![i] = head_[i]]
    /\ IF c_tail[i] = head_[i]
       THEN /\ popped' = [popped EXCEPT ![i] = 0]
            /\ wpc' = [wpc EXCEPT ![i] = "pb_ret"]
            /\ UNCHANGED <<c_count, c_current, c_k>>
       ELSE /\ c_count' = [c_count EXCEPT ![i] =
                              Min(Available(head_[i], c_tail[i]), c_max[i])]
            /\ c_current' = [c_current EXCEPT ![i] = c_tail[i]]
            /\ c_k' = [c_k EXCEPT ![i] = 0]
            /\ wpc' = [wpc EXCEPT ![i] = "pb_move"]
            /\ UNCHANGED popped
    /\ UNCHANGED <<cfgVars, extVars, ringVars, upVars, prodVars, mainVars, c_tail,
                   c_max, c_item, batch, retries, site, statVars, histVars>>

\* Faulty variant: the items are put in front of out instead of behind it.
PB_Move_Reversed(i) ==
    /\ wpc[i] = "pb_move"
    /\ IF c_k[i] < c_count[i]
       THEN /\ batch' = [batch EXCEPT ![i] = <<buffer_[i][c_current[i]]>> \o @]
            /\ buffer_' = [buffer_ EXCEPT ![i][c_current[i]] = EmptyEntry]
            /\ c_current' = [c_current EXCEPT ![i] = BitAnd(@ + 1, mask_)]
            /\ c_k' = [c_k EXCEPT ![i] = @ + 1]
            /\ wpc' = wpc
       ELSE /\ wpc' = [wpc EXCEPT ![i] = "pb_store"]
            /\ UNCHANGED <<batch, buffer_, c_current, c_k>>
    /\ UNCHANGED <<cfgVars, extVars, head_, tail_, upVars, prodVars, mainVars, c_tail,
                   c_head, c_count, c_max, c_item, popped, retries, site,
                   statVars, histVars>>

\* for (i < count) { out.push_back(std::move(buffer_[current])); current = (current + 1) & mask_; }
PB_Move(i) ==
    /\ wpc[i] = "pb_move"
    /\ IF c_k[i] < c_count[i]
       THEN /\ batch' = [batch EXCEPT ![i] = Append(@, buffer_[i][c_current[i]])]
            /\ buffer_' = [buffer_ EXCEPT ![i][c_current[i]] = EmptyEntry]
            /\ c_current' = [c_current EXCEPT ![i] = BitAnd(@ + 1, mask_)]
            /\ c_k' = [c_k EXCEPT ![i] = @ + 1]
            /\ wpc' = wpc
       ELSE /\ wpc' = [wpc EXCEPT ![i] = "pb_store"]
            /\ UNCHANGED <<batch, buffer_, c_current, c_k>>
    /\ UNCHANGED <<cfgVars, extVars, head_, tail_, upVars, prodVars, mainVars, c_tail,
                   c_head, c_count, c_max, c_item, popped, retries, site,
                   statVars, histVars>>

\* tail_.store(current, release); return count;
PB_StoreTail(i) ==
    /\ wpc[i] = "pb_store"
    /\ tail_' = [tail_ EXCEPT ![i] = c_current[i]]
    /\ popped' = [popped EXCEPT ![i] = c_count[i]]
    /\ wpc' = [wpc EXCEPT ![i] = "pb_ret"]
    /\ UNCHANGED <<cfgVars, extVars, head_, buffer_, upVars, prodVars, mainVars,
                   popVars, batch, retries, site, statVars, histVars>>

pop_batch(i) == PB_LoadTail(i) \/ PB_LoadHead(i) \/ PB_Move(i) \/ PB_StoreTail(i)

(* ---- try_pop(), called by the consumer of buffer i ------------------- *)

\* const size_t tail = tail_.load(relaxed);
TPop_LoadTail(i) ==
    /\ wpc[i] = "pop_load_tail"
    /\ c_tail' = [c_tail EXCEPT ![i] = tail_[i]]
    /\ wpc' = [wpc EXCEPT ![i] = "pop_load_head"]
    /\ UNCHANGED <<cfgVars, extVars, ringVars, upVars, prodVars, mainVars, c_head,
                   c_count, c_current, c_k, c_max, c_item, batch, popped,
                   retries, site, statVars, histVars>>

\* if (tail == head_.load(acquire)) return std::nullopt;
TPop_LoadHead(i) ==
    /\ wpc[i] = "pop_load_head"
    /\ c_head' = [c_head EXCEPT ![i] = head_[i]]
    /\ IF c_tail[i] = head_[i]
       THEN /\ popped' = [popped EXCEPT ![i] = 0]
            /\ wpc' = [wpc EXCEPT ![i] = "pop_ret"]
       ELSE /\ popped' = popped
            /\ wpc' = [wpc EXCEPT ![i] = "pop_move"]
    /\ UNCHANGED <<cfgVars, extVars, ringVars, upVars, prodVars, mainVars, c_tail,
                   c_count, c_current, c_k, c_max, c_item, batch, retries,
                   site, statVars, histVars>>

\* T item = std::move(buffer_[tail]);
TPop_Move(i) ==
    /\ wpc[i] = "pop_move"
    /\ c_item' = [c_item EXCEPT ![i] = buffer_[i][c_tail[i]]]
    /\ buffer_' = [buffer_ EXCEPT ![i][c_tail[i]] = EmptyEntry]
    /\ wpc' = [wpc EXCEPT ![i] = "pop_store"]
    /\ UNCHANGED <<cfgVars, extVars, head_, tail_, upVars, prodVars, mainVars, c_tail,
                   c_head, c_count, c_current, c_k, c_max, batch, popped,
                   retries, site, statVars, histVars>>

\* tail_.store((tail + 1) & mask_, release); return item;
TPop_StoreTail(i) ==
    /\ wpc[i] = "pop_store"
    /\ tail_' = [tail_ EXCEPT ![i] = BitAnd(c_tail[i] + 1, mask_)]
    /\ popped' = [popped EXCEPT ![i] = 1]
    /\ wpc' = [wpc EXCEPT ![i] = "pop_ret"]
    /\ UNCHANGED <<cfgVars, extVars, head_, buffer_, upVars, prodVars, mainVars,
                   popVars, batch, retries, site, statVars, histVars>>

try_pop(i) == TPop_LoadTail(i) \/ TPop_LoadHead(i) \/ TPop_Move(i) \/ TPop_StoreTail(i)

ResetPop(i) ==
    /\ c_tail' = [c_tail EXCEPT ![i] = 0]
    /\ c_head' = [c_head EXCEPT ![i] = 0]
    /\ c_count' = [c_count EXCEPT ![i] = 0]
    /\ c_current' = [c_current EXCEPT ![i] = 0]
    /\ c_k' = [c_k EXCEPT ![i] = 0]
    /\ c_max' = [c_max EXCEPT ![i] = 0]

(* ====================================================================== *)
(*            RedisConsumer (redis_consumer.cpp) and main (main.cpp)      *)
(* ====================================================================== *)

RECURSIVE SortedSeq(_)
SortedSeq(S) ==
    IF S = {} THEN <<>>
    ELSE LET m == CHOOSE x \in S : \A y \in S : x <= y
         IN  <<m>> \o SortedSeq(S \ {m})

FirstN(s, n) == SubSeq(s, 1, Min(n, Len(s)))

\* XREADGROUP ... COUNT read_batch_size STREAMS key 0: the oldest entries of
\* this consumer's pending list.
PendingReply == FirstN(SortedSeq(pending), read_batch_size)

\* XREADGROUP ... COUNT read_batch_size STREAMS key >: the next entries never
\* delivered to the group.
NewReply ==
    [k \in 1 .. Min(read_batch_size, MaxMsgs - last_delivered) |-> last_delivered + k]

SeqRange(s) == {s[k] : k \in 1 .. Len(s)}

\* The replies XGROUP CREATE can get: a status, the error that the group
\* exists, another error, none (a null reply).  "unsent": a connection failed
\* and connect() returned before ensure_consumer_group().
GroupReplies == {"STATUS", "BUSYGROUP", "ERROR", "NULL", "unsent"}

\* Faulty variant: the BUSYGROUP error counts as a failure.
ensure_consumer_group_StatusOnly(r) == r = "STATUS"

\* ensure_consumer_group(): success on a status reply or a BUSYGROUP error.
ensure_consumer_group(r) == r \in {"STATUS", "BUSYGROUP"}

\* No pair of calls is being compared.
NoProbe == [phase |-> 0]

\* std::mutex write_mutex_: free, or held by the main thread or by worker i.
Unlocked == <<"free">>

HeldByMain == <<"main">>

HeldBy(i) == <<"worker", i>>

\* consumer.connect(): the two connections; when either fails main returns
\* 1, otherwise ensure_consumer_group() is entered and takes write_mutex_.
M_Connect ==
    /\ mainpc = "connect"
    /\ \/ /\ group_reply' = "unsent"
          /\ mainpc' = "exit1"
          /\ UNCHANGED write_mutex_
       \/ /\ write_mutex_ = Unlocked
          /\ write_mutex_' = HeldByMain
          /\ mainpc' = "group_cmd"
          /\ UNCHANGED group_reply
    /\ UNCHANGED <<cfgVars, ids, discards, probe, requested, parse_errors_, sizeVars,
                   recover_calls,
                   connect_failed, ringVars, upVars, prodVars, mode, reply, entry,
                   start_idx, current_buffer_idx_, count, messages_read_,
                   g_running, consumer_running, writer_running, popVars,
                   workVars, statVars, histVars>>

\* ensure_consumer_group(): XGROUP CREATE on redis_write_ under the lock,
\* which the lock_guard releases on return; on failure main returns 1.
M_EnsureGroup ==
    /\ mainpc = "group_cmd"
    /\ \E r \in GroupReplies \ {"unsent"} :
          /\ group_reply' = r
          /\ mainpc' = IF ensure_consumer_group(r) THEN "start" ELSE "exit1"
    /\ write_mutex_' = Unlocked
    /\ UNCHANGED <<cfgVars, ids, discards, probe, requested, parse_errors_, sizeVars,
                   recover_calls,
                   connect_failed, ringVars, upVars, prodVars, mode, reply, entry,
                   start_idx, current_buffer_idx_, count, messages_read_,
                   g_running, consumer_running, writer_running, popVars,
                   workVars, statVars, histVars>>

\* writer.start(buffers, on_flush): sets running_ and spawns the threads.
M_Start ==
    /\ mainpc = "start"
    /\ ~writer_running
    /\ writer_running' = TRUE
    /\ wpc' = [i \in Workers |-> "connect"]
    /\ mainpc' = "recover"
    /\ group_reply' = "none"
    /\ UNCHANGED <<cfgVars, ackVars, probe, requested, parse_errors_, sizeVars, recover_calls,
                   connect_failed, ringVars, upVars, prodVars, mode, reply, entry,
                   start_idx, current_buffer_idx_, count, messages_read_,
                   g_running, consumer_running, popVars, batch, popped,
                   retries, site, statVars, histVars>>

\* consumer.recover_pending(buffers): the command and the reply checks.
M_RecoverPending ==
    /\ mainpc = "recover"
    /\ \/ /\ reply' = PendingReply
          /\ mode' = "recover"
          /\ mainpc' = "msg_loop"
       \/ /\ mainpc' = "read_loop"
          /\ UNCHANGED <<reply, mode>>
    /\ count' = 0
    /\ skipped' = FALSE
    /\ recover_calls' = recover_calls + 1
    /\ UNCHANGED <<cfgVars, ackVars, probe, requested, parse_errors_, sizeVars, group_reply,
                   connect_failed, ringVars, upVars, prodVars, entry, start_idx,
                   current_buffer_idx_, messages_read_, g_running,
                   consumer_running, writer_running, popVars, workVars,
                   statVars, pushed, inserted, flushed, discarded, attempts,
                   reconnects, rr_window, ack_failures, acked, pending_at_start>>

\* while (g_running && consumer.is_running()) consumer.read_batch(buffers):
\* the command and the reply checks.  The delivered messages enter the
\* pending list of this consumer.
M_ReadBatch ==
    /\ mainpc = "read_loop"
    /\ g_running /\ consumer_running
    /\ \/ /\ NewReply # <<>>
          /\ reply' = NewReply
          /\ pending' = pending \cup SeqRange(NewReply)
          /\ last_delivered' = last_delivered + Len(NewReply)
          /\ mode' = "read"
          /\ mainpc' = "msg_loop"
       \/ /\ UNCHANGED <<reply, pending, last_delivered, mode, mainpc>>
    /\ count' = 0
    /\ skipped' = FALSE
    /\ UNCHANGED <<cfgVars, extVars, ringVars, prodVars, entry, start_idx,
                   current_buffer_idx_, messages_read_, g_running,
                   consumer_running, writer_running, popVars, workVars,
                   statVars, pushed, inserted, flushed, discarded, attempts,
                   reconnects, rr_window, ack_failures, acked, pending_at_start>>

\* The message loop of read_batch / recover_pending: the next message is
\* parsed and the probe loop starts; after the last message the call returns
\* (read_batch adds count to messages_read_).
M_NextMessage ==
    /\ mainpc = "msg_loop"
    /\ IF reply = <<>>
       THEN /\ messages_read_' = IF mode = "read" THEN messages_read_ + count
                                 ELSE messages_read_
            /\ mode' = "none"
            /\ count' = 0
            /\ mainpc' = "read_loop"
            /\ UNCHANGED <<entry, start_idx>>
       ELSE /\ entry' = parse_message(Head(reply))
            /\ start_idx' = current_buffer_idx_
            /\ mainpc' = "tp_load_head"
            /\ UNCHANGED <<messages_read_, mode, count>>
    /\ UNCHANGED <<cfgVars, extVars, ringVars, upVars, prodVars, reply,
                   current_buffer_idx_, g_running, consumer_running,
                   writer_running, popVars, workVars, statVars, histVars>>

\* Faulty variant: the index is not advanced after a successful try_push.
M_AfterTryPush_NoAdvance ==
    /\ mainpc = "tp_ret"
    /\ current_buffer_idx_' = IF push_ret THEN current_buffer_idx_
                               ELSE (current_buffer_idx_ + 1) % writer_threads
    /\ IF push_ret
       THEN /\ count' = count + 1
            /\ rr_window' = Append(rr_window, current_buffer_idx_)
            /\ reply' = Tail(reply)
            /\ mainpc' = "msg_loop"
            /\ UNCHANGED <<entry, skipped, ack_failures, acked, pending_at_start>>
       ELSE /\ rr_window' = <<>>
            /\ IF current_buffer_idx_' # start_idx
               THEN /\ mainpc' = "tp_load_head"
                    /\ UNCHANGED <<reply, entry, skipped, ack_failures, acked, pending_at_start>>
               ELSE /\ skipped' = TRUE
                    /\ entry' = EmptyEntry
                    /\ reply' = Tail(reply)
                    /\ mainpc' = "msg_loop"
            /\ UNCHANGED count
    /\ p_head' = 0
    /\ p_next_head' = 0
    /\ push_ret' = FALSE
    /\ UNCHANGED <<cfgVars, extVars, ringVars, upVars, mode, start_idx, messages_read_,
                   g_running, consumer_running, writer_running, popVars,
                   workVars, statVars, pushed, inserted, flushed, discarded,
                   attempts, reconnects, ack_failures, acked, pending_at_start>>

\* Faulty variant: try_push is given a copy and the probe loop does not stop
\* at the first success: it goes on until the index is back at start_idx.
M_AfterTryPush_KeepsProbing ==
    /\ mainpc = "tp_ret"
    /\ current_buffer_idx_' = (current_buffer_idx_ + 1) % writer_threads
    /\ IF push_ret
       THEN /\ count' = count + 1
            /\ rr_window' = Append(rr_window, current_buffer_idx_)
            /\ IF current_buffer_idx_' # start_idx
               THEN /\ mainpc' = "tp_load_head"
                    /\ entry' = parse_message(Head(reply))
                    /\ UNCHANGED reply
               ELSE /\ reply' = Tail(reply)
                    /\ mainpc' = "msg_loop"
                    /\ UNCHANGED entry
            /\ UNCHANGED <<skipped, ack_failures, acked, pending_at_start>>
       ELSE /\ rr_window' = <<>>
            /\ IF current_buffer_idx_' # start_idx
               THEN /\ mainpc' = "tp_load_head"
                    /\ UNCHANGED <<reply, entry, skipped, ack_failures, acked, pending_at_start>>
               ELSE /\ skipped' = TRUE
                    /\ entry' = EmptyEntry
                    /\ reply' = Tail(reply)
                    /\ mainpc' = "msg_loop"
            /\ UNCHANGED count
    /\ p_head' = 0
    /\ p_next_head' = 0
    /\ push_ret' = FALSE
    /\ UNCHANGED <<cfgVars, extVars, ringVars, upVars, mode, start_idx, messages_read_,
                   g_running, consumer_running, writer_running, popVars,
                   workVars, statVars, pushed, inserted, flushed, discarded,
                   attempts, reconnects, ack_failures, acked, pending_at_start>>

\* The body of the do-while after try_push returned, and what follows the
\* loop: on success the index advances and the next message is taken; on
\* failure the index advances and the next buffer is probed until the index is
\* back at start_idx.  Then read_batch executes `break`, which leaves the loop
\* over the fields of this message (its innermost enclosing loop), and
\* recover_pending executes nothing: both go on with the next message.
M_AfterTryPush ==
    /\ mainpc = "tp_ret"
    /\ current_buffer_idx_' = (current_buffer_idx_ + 1) % writer_threads
    /\ IF push_ret
       THEN /\ count' = count + 1
            /\ rr_window' = Append(rr_window, current_buffer_idx_)
            /\ reply' = Tail(reply)
            /\ mainpc' = "msg_loop"
            /\ UNCHANGED <<entry, skipped, ack_failures, acked, pending_at_start>>
       ELSE /\ rr_window' = <<>>
            /\ IF current_buffer_idx_' # start_idx
               THEN /\ mainpc' = "tp_load_head"
                    /\ UNCHANGED <<reply, entry, skipped, ack_failures, acked, pending_at_start>>
               ELSE /\ skipped' = TRUE
                    /\ entry' = EmptyEntry
                    /\ reply' = Tail(reply)
                    /\ mainpc' = "msg_loop"
            /\ UNCHANGED count
    /\ p_head' = 0
    /\ p_next_head' = 0
    /\ push_ret' = FALSE
    /\ UNCHANGED <<cfgVars, extVars, ringVars, upVars, mode, start_idx, messages_read_,
                   g_running, consumer_running, writer_running, popVars,
                   workVars, statVars, pushed, inserted, flushed, discarded,
                   attempts, reconnects, ack_failures, acked, pending_at_start>>

\* Faulty variant: the handler clears the writer pool's running flag
\* and the read loop is left running.
Signal_StopsWriter ==
    /\ g_running
    /\ mainpc = "read_loop"
    /\ writer_running' = FALSE
    /\ UNCHANGED <<cfgVars, extVars, ringVars, upVars, prodVars, mainpc, mode, reply,
                   entry, start_idx, current_buffer_idx_, count, messages_read_,
                   consumer_running, g_running, popVars, workVars,
                   statVars, histVars>>

\* signal_handler: g_running.store(false)
Signal ==
    /\ g_running
    /\ mainpc = "read_loop"
    /\ g_running' = FALSE
    /\ UNCHANGED <<cfgVars, extVars, ringVars, upVars, prodVars, mainpc, mode, reply,
                   entry, start_idx, current_buffer_idx_, count, messages_read_,
                   consumer_running, writer_running, popVars, workVars,
                   statVars, histVars>>

\* The read loop ends; consumer.stop().
M_StopConsumer ==
    /\ mainpc = "read_loop"
    /\ ~(g_running /\ consumer_running)
    /\ consumer_running' = FALSE
    /\ mainpc' = "stop_writer"
    /\ UNCHANGED <<cfgVars, extVars, ringVars, upVars, prodVars, mode, reply, entry,
                   start_idx, current_buffer_idx_, count, messages_read_,
                   g_running, writer_running, popVars, workVars, statVars,
                   histVars>>

\* writer.stop(): running_.store(false), then the joins.
M_StopWriter ==
    /\ mainpc = "stop_writer"
    /\ writer_running
    /\ writer_running' = FALSE
    /\ mainpc' = "join"
    /\ UNCHANGED <<cfgVars, extVars, ringVars, upVars, prodVars, mode, reply, entry,
                   start_idx, current_buffer_idx_, count, messages_read_,
                   g_running, consumer_running, popVars, workVars, statVars,
                   histVars>>

\* for (auto& t : threads_) t.join(); then main prints the stats and returns 0.
M_Join ==
    /\ mainpc = "join"
    /\ \A i \in Workers : wpc[i] = "Stopped"
    /\ mainpc' = "done"
    /\ UNCHANGED <<cfgVars, extVars, ringVars, upVars, prodVars, mode, reply, entry,
                   start_idx, current_buffer_idx_, count, messages_read_,
                   g_running, consumer_running, writer_running, popVars,
                   workVars, statVars, histVars>>

Main ==
    \/ M_Connect \/ M_EnsureGroup \/ M_Start \/ M_RecoverPending \/ M_ReadBatch
    \/ M_NextMessage \/ try_push \/ M_AfterTryPush
    \/ M_StopConsumer \/ M_StopWriter \/ M_Join

(* ====================================================================== *)
(*                 ClickHouseWriter (clickhouse_writer.cpp)               *)
(* ====================================================================== *)

\* int retries = 3;
RetryBudget == 3

\* The non-empty redis_ids of a batch, in batch order.
BatchIds(b) ==
    LET all == [k \in 1 .. Len(b) |-> b[k].redis_id]
    IN  SelectSeq(all, LAMBDA x : x # 0)

\* client = std::make_unique<Client>(options); a failure ends the thread.
W_Connect(i) ==
    /\ wpc[i] = "connect"
    /\ \/ /\ wpc' = [wpc EXCEPT ![i] = "loop"]
          /\ UNCHANGED connect_failed
       \/ /\ wpc' = [wpc EXCEPT ![i] = "Stopped"]
          /\ connect_failed' = connect_failed \cup {i}
    /\ UNCHANGED <<cfgVars, ackVars, probe, requested, parse_errors_, sizeVars, group_reply,
                   recover_calls, ringVars, upVars, prodVars, mainVars, popVars, batch,
                   popped, retries, site, statVars, histVars>>

\* Faulty variant: max_count is batch_size, whatever the batch already holds.
CallPopBatch_WholeBatchSize(i) ==
    /\ c_max' = [c_max EXCEPT ![i] = batch_size]
    /\ wpc' = [wpc EXCEPT ![i] = "pb_load_tail"]

\* buffer->pop_batch(batch, config_.batch_size - batch.size()) is entered.
CallPopBatch(i) ==
    /\ c_max' = [c_max EXCEPT ![i] = SizeSub(batch_size, Len(batch[i]))]
    /\ wpc' = [wpc EXCEPT ![i] = "pb_load_tail"]

\* while (running_.load() || ...): with the flag set the body runs:
\* buffer->pop_batch(batch, config_.batch_size - batch.size())
W_LoopCond(i) ==
    /\ wpc[i] = "loop"
    /\ IF writer_running
       THEN CallPopBatch(i)
       ELSE /\ wpc' = [wpc EXCEPT ![i] = "check_empty"]
            /\ UNCHANGED c_max
    /\ UNCHANGED <<cfgVars, extVars, ringVars, upVars, prodVars, mainVars, c_tail, c_head,
                   c_count, c_current, c_k, c_item, batch, popped, retries,
                   site, statVars, histVars>>

\* while (... || !buffer->empty())
W_CheckEmpty(i) ==
    /\ wpc[i] = "check_empty"
    /\ IF head_[i] # tail_[i]
       THEN CallPopBatch(i)
       ELSE /\ wpc' = [wpc EXCEPT ![i] = "final"]
            /\ UNCHANGED c_max
    /\ UNCHANGED <<cfgVars, extVars, ringVars, upVars, prodVars, mainVars, c_tail, c_head,
                   c_count, c_current, c_k, c_item, batch, popped, retries,
                   site, statVars, histVars>>

\* write_with_retry has returned: its locals are gone.
LeaveWriteWithRetry(i) ==
    /\ site' = [site EXCEPT ![i] = "none"]
    /\ retries' = [retries EXCEPT ![i] = 0]
    /\ attempts' = [attempts EXCEPT ![i] = 0]
    /\ reconnects' = [reconnects EXCEPT ![i] = 0]

EnterWriteWithRetry(i, s) ==
    /\ site' = [site EXCEPT ![i] = s]
    /\ retries' = [retries EXCEPT ![i] = RetryBudget]
    /\ attempts' = [attempts EXCEPT ![i] = 0]
    /\ reconnects' = [reconnects EXCEPT ![i] = 0]
    /\ wpc' = [wpc EXCEPT ![i] = "write"]

\* Faulty variant: only a full batch is flushed; after an empty pop the
\* partial batch is kept.
W_AfterPop_NoIdleFlush(i) ==
    /\ wpc[i] = "pb_ret"
    /\ IF Len(batch[i]) >= batch_size
       THEN EnterWriteWithRetry(i, "full")
       ELSE /\ wpc' = [wpc EXCEPT ![i] = "loop"]
            /\ UNCHANGED <<site, retries, attempts, reconnects>>
    /\ ResetPop(i)
    /\ popped' = [popped EXCEPT ![i] = 0]
    /\ UNCHANGED <<cfgVars, extVars, ringVars, upVars, prodVars, mainVars, c_item, batch,
                   statVars, pushed, inserted, flushed, discarded, rr_window,
                   skipped, ack_failures, acked, pending_at_start>>

\* After pop_batch returned: flush a full batch, flush a partial batch after
\* an empty pop (and the 1 ms sleep), or go round the loop.
W_AfterPop(i) ==
    /\ wpc[i] = "pb_ret"
    /\ IF Len(batch[i]) >= batch_size
       THEN EnterWriteWithRetry(i, "full")
       ELSE IF popped[i] = 0 /\ batch[i] # <<>>
            THEN EnterWriteWithRetry(i, "idle")
            ELSE /\ wpc' = [wpc EXCEPT ![i] = "loop"]
                 /\ UNCHANGED <<site, retries, attempts, reconnects>>
    /\ ResetPop(i)
    /\ popped' = [popped EXCEPT ![i] = 0]
    /\ UNCHANGED <<cfgVars, extVars, ringVars, upVars, prodVars, mainVars, c_item, batch,
                   statVars, pushed, inserted, flushed, discarded, rr_window,
                   skipped, ack_failures, acked, pending_at_start>>

\* Faulty variant: no early return for an empty batch, which is inserted and
\* counted like any other.
write_batch_NoEmptyCheck(i) ==
    /\ wpc[i] = "write"
    /\ IF FALSE
       THEN /\ wpc' = [wpc EXCEPT ![i] = "callback"]
            /\ UNCHANGED <<inserted, statVars, attempts>>
       ELSE /\ attempts' = [attempts EXCEPT ![i] = @ + 1]
            /\ \/ /\ inserted' = [inserted EXCEPT ![i] = @ \o batch[i]]
                  /\ logs_written_' = logs_written_ + Len(batch[i])
                  /\ batches_written_' = batches_written_ + 1
                  /\ wpc' = [wpc EXCEPT ![i] = "callback"]
                  /\ UNCHANGED errors_
               \/ /\ errors_ < MaxInsertFailures
                  /\ errors_' = errors_ + 1
                  /\ wpc' = [wpc EXCEPT ![i] = "reconnect"]
                  /\ UNCHANGED <<inserted, logs_written_, batches_written_>>
    /\ UNCHANGED <<cfgVars, extVars, ringVars, upVars, prodVars, mainVars, popVars, batch,
                   popped, retries, site, pushed, flushed, discarded,
                   reconnects, rr_window, skipped, ack_failures, acked, pending_at_start>>

\* Faulty variant: logs_written_ is bumped before client.Insert, so also when
\* it throws.
write_batch_CountsBeforeInsert(i) ==
    /\ wpc[i] = "write"
    /\ IF batch[i] = <<>>
       THEN /\ wpc' = [wpc EXCEPT ![i] = "callback"]
            /\ UNCHANGED <<inserted, statVars, attempts>>
       ELSE /\ attempts' = [attempts EXCEPT ![i] = @ + 1]
            /\ \/ /\ inserted' = [inserted EXCEPT ![i] = @ \o batch[i]]
                  /\ logs_written_' = logs_written_ + Len(batch[i])
                  /\ batches_written_' = batches_written_ + 1
                  /\ wpc' = [wpc EXCEPT ![i] = "callback"]
                  /\ UNCHANGED errors_
               \/ /\ errors_ < MaxInsertFailures
                  /\ errors_' = errors_ + 1
                  /\ wpc' = [wpc EXCEPT ![i] = "reconnect"]
                  /\ logs_written_' = logs_written_ + Len(batch[i])
                  /\ UNCHANGED <<inserted, batches_written_>>
    /\ UNCHANGED <<cfgVars, extVars, ringVars, upVars, prodVars, mainVars, popVars, batch,
                   popped, retries, site, pushed, flushed, discarded,
                   reconnects, rr_window, skipped, ack_failures, acked, pending_at_start>>

\* write_batch(b, *client, thread_id): an empty batch returns true at once;
\* otherwise client.Insert either returns (the rows are in the table and the
\* counters are bumped) or throws (errors_ is bumped).
write_batch(i) ==
    /\ wpc[i] = "write"
    /\ IF batch[i] = <<>>
       THEN /\ wpc' = [wpc EXCEPT ![i] = "callback"]
            /\ UNCHANGED <<inserted, statVars, attempts>>
       ELSE /\ attempts' = [attempts EXCEPT ![i] = @ + 1]
            /\ \/ /\ inserted' = [inserted EXCEPT ![i] = @ \o batch[i]]
                  /\ logs_written_' = logs_written_ + Len(batch[i])
                  /\ batches_written_' = batches_written_ + 1
                  /\ wpc' = [wpc EXCEPT ![i] = "callback"]
                  /\ UNCHANGED errors_
               \/ /\ errors_ < MaxInsertFailures
                  /\ errors_' = errors_ + 1
                  /\ wpc' = [wpc EXCEPT ![i] = "reconnect"]
                  /\ UNCHANGED <<inserted, logs_written_, batches_written_>>
    /\ UNCHANGED <<cfgVars, extVars, ringVars, upVars, prodVars, mainVars, popVars, batch,
                   popped, retries, site, pushed, flushed, discarded,
                   reconnects, rr_window, skipped, ack_failures, acked, pending_at_start>>

\* Faulty variant: while (retries >= 0), one attempt more.
W_Reconnect_OffByOne(i) ==
    /\ wpc[i] = "reconnect"
    /\ reconnects' = [reconnects EXCEPT ![i] = @ + 1]
    /\ retries' = [retries EXCEPT ![i] = @ - 1]
    /\ wpc' = [wpc EXCEPT ![i] = IF retries[i] - 1 >= 0 THEN "write" ELSE "give_up"]
    /\ UNCHANGED <<cfgVars, extVars, ringVars, upVars, prodVars, mainVars, popVars, batch,
                   popped, site, statVars, pushed, inserted, flushed, discarded,
                   attempts, rr_window, skipped, ack_failures, acked, pending_at_start>>

\* The rest of one round of write_with_retry after a failed write_batch: the
\* reconnect attempt (whatever its outcome), the 500 ms sleep, retries--.
\* With retries left the insert is tried again; otherwise write_with_retry
\* returns false.
W_Reconnect(i) ==
    /\ wpc[i] = "reconnect"
    /\ reconnects' = [reconnects EXCEPT ![i] = @ + 1]
    /\ retries' = [retries EXCEPT ![i] = @ - 1]
    /\ wpc' = [wpc EXCEPT ![i] = IF retries[i] - 1 > 0 THEN "write" ELSE "give_up"]
    /\ UNCHANGED <<cfgVars, extVars, ringVars, upVars, prodVars, mainVars, popVars, batch,
                   popped, site, statVars, pushed, inserted, flushed, discarded,
                   attempts, rr_window, skipped, ack_failures, acked, pending_at_start>>

\* Faulty variant: the result of write_with_retry is ignored and on_flush is called for
\* a batch that was not inserted.
W_Discard_Acks(i) ==
    /\ wpc[i] = "give_up"
    /\ discarded' = discarded \cup SeqRange(BatchIds(batch[i]))
    /\ discards' = discards + 1
    /\ wpc' = [wpc EXCEPT ![i] = "callback"]
    /\ UNCHANGED <<cfgVars, write_mutex_, ids, probe, requested, parse_errors_, sizeVars,
                   group_reply, recover_calls, connect_failed, ringVars, upVars,
                   prodVars, mainVars, popVars, batch, popped, retries, site,
                   statVars, pushed, inserted, flushed, attempts, reconnects,
                   rr_window, skipped, ack_failures, acked, pending_at_start>>

\* write_with_retry returned false: no callback; batch.clear() in the loop,
\* the end of the thread after the final flush.
W_Discard(i) ==
    /\ wpc[i] = "give_up"
    /\ discarded' = discarded \cup SeqRange(BatchIds(batch[i]))
    /\ discards' = discards + 1
    /\ batch' = [batch EXCEPT ![i] = <<>>]
    /\ wpc' = [wpc EXCEPT ![i] = IF site[i] = "final" THEN "Stopped" ELSE "loop"]
    /\ LeaveWriteWithRetry(i)
    /\ UNCHANGED <<cfgVars, write_mutex_, ids, probe, requested, parse_errors_, sizeVars,
                   group_reply, recover_calls, connect_failed, ringVars, upVars,
                   prodVars, mainVars, popVars,
                   popped, statVars, pushed, inserted, flushed, rr_window,
                   skipped, ack_failures, acked, pending_at_start>>

\* on_flush(ids) has returned: batch.clear() in the loop, the end of the
\* thread after the final flush.
AfterFlush(i) ==
    /\ batch' = [batch EXCEPT ![i] = <<>>]
    /\ wpc' = [wpc EXCEPT ![i] = IF site[i] = "final" THEN "Stopped" ELSE "loop"]
    /\ LeaveWriteWithRetry(i)

\* Faulty variant: only the id of the first entry is collected.
W_OnFlush_FirstIdOnly(i) ==
    /\ wpc[i] = "callback"
    /\ flushed' = flushed \cup SeqRange(BatchIds(batch[i]))
    /\ IF BatchIds(batch[i]) = <<>>
       THEN /\ AfterFlush(i)
            /\ UNCHANGED ids
       ELSE /\ ids' = [ids EXCEPT ![i] = <<Head(BatchIds(batch[i]))>>]
            /\ wpc' = [wpc EXCEPT ![i] = "ack_lock"]
            /\ UNCHANGED <<batch, site, retries, attempts, reconnects>>
    /\ UNCHANGED <<cfgVars, write_mutex_, discards, probe, requested, parse_errors_,
                   sizeVars, group_reply, recover_calls, connect_failed,
                   ringVars, upVars, prodVars, mainVars,
                   popVars, popped, statVars, pushed, inserted,
                   discarded, rr_window, skipped, ack_failures, acked,
                   pending_at_start>>

\* write_with_retry returned true: the non-empty ids of the batch are
\* collected in batch order and on_flush(ids) calls consumer.ack_batch(ids),
\* which returns at once for an empty list.
W_OnFlush(i) ==
    /\ wpc[i] = "callback"
    /\ flushed' = flushed \cup SeqRange(BatchIds(batch[i]))
    /\ IF BatchIds(batch[i]) = <<>>
       THEN /\ AfterFlush(i)
            /\ UNCHANGED ids
       ELSE /\ ids' = [ids EXCEPT ![i] = BatchIds(batch[i])]
            /\ wpc' = [wpc EXCEPT ![i] = "ack_lock"]
            /\ UNCHANGED <<batch, site, retries, attempts, reconnects>>
    /\ UNCHANGED <<cfgVars, write_mutex_, discards, probe, requested, parse_errors_,
                   sizeVars, group_reply, recover_calls, connect_failed,
                   ringVars, upVars, prodVars, mainVars,
                   popVars, popped, statVars, pushed, inserted,
                   discarded, rr_window, skipped, ack_failures, acked,
                   pending_at_start>>

\* Faulty variant: the command is issued without taking write_mutex_.
AB_Lock_NoMutex(i) ==
    /\ wpc[i] = "ack_lock"
    /\ write_mutex_' = write_mutex_
    /\ wpc' = [wpc EXCEPT ![i] = "ack_cmd"]
    /\ UNCHANGED <<cfgVars, ids, discards, probe, requested, parse_errors_,
                   sizeVars, group_reply, recover_calls, connect_failed,
                   ringVars, upVars, prodVars, mainVars, popVars, batch,
                   popped, retries, site, statVars, histVars>>

\* std::lock_guard<std::mutex> lock(write_mutex_): blocks while it is held.
AB_Lock(i) ==
    /\ wpc[i] = "ack_lock"
    /\ write_mutex_ = Unlocked
    /\ write_mutex_' = HeldBy(i)
    /\ wpc' = [wpc EXCEPT ![i] = "ack_cmd"]
    /\ UNCHANGED <<cfgVars, ids, discards, probe, requested, parse_errors_,
                   sizeVars, group_reply, recover_calls, connect_failed,
                   ringVars, upVars, prodVars, mainVars, popVars, batch,
                   popped, retries, site, statVars, histVars>>

\* Faulty variant: after a transport error the command is sent again.
AB_Command_Retry(i) ==
    /\ wpc[i] = "ack_cmd"
    /\ \/ /\ pending' = pending \ SeqRange(ids[i])
          /\ acked' = acked \cup SeqRange(ids[i])
          /\ write_mutex_' = Unlocked
          /\ ids' = [ids EXCEPT ![i] = <<>>]
          /\ AfterFlush(i)
          /\ UNCHANGED ack_failures
       \/ /\ ack_failures < MaxAckFailures
          /\ ack_failures' = ack_failures + 1
          /\ UNCHANGED <<pending, acked, write_mutex_, ids, wpc, batch, site,
                         retries, attempts, reconnects>>
    /\ UNCHANGED <<cfgVars, discards, probe, requested, parse_errors_,
                   sizeVars, group_reply, recover_calls, connect_failed,
                   ringVars, last_delivered, prodVars, mainVars,
                   popVars, popped, statVars, pushed, inserted, flushed,
                   discarded, rr_window, skipped, pending_at_start>>

\* One XACK with all the ids on redis_write_; the reply, or its absence
\* after a transport error (the ids then stay pending), is dropped. The
\* lock_guard releases write_mutex_ and ack_batch and on_flush return.
AB_Command(i) ==
    /\ wpc[i] = "ack_cmd"
    /\ \/ /\ pending' = pending \ SeqRange(ids[i])
          /\ acked' = acked \cup SeqRange(ids[i])
          /\ UNCHANGED ack_failures
       \/ /\ ack_failures < MaxAckFailures
          /\ ack_failures' = ack_failures + 1
          /\ UNCHANGED <<pending, acked>>
    /\ write_mutex_' = Unlocked
    /\ ids' = [ids EXCEPT ![i] = <<>>]
    /\ AfterFlush(i)
    /\ UNCHANGED <<cfgVars, discards, probe, requested, parse_errors_,
                   sizeVars, group_reply, recover_calls, connect_failed,
                   ringVars, last_delivered, prodVars, mainVars,
                   popVars, popped, statVars, pushed, inserted, flushed,
                   discarded, rr_window, skipped, pending_at_start>>

\* consumer.ack_batch(ids) for a non-empty list.
ack_batch(i) == AB_Lock(i) \/ AB_Command(i)

\* Faulty variant: the thread ends without the final flush.
W_FinalFlush_Skipped(i) ==
    /\ wpc[i] = "final"
    /\ IF FALSE
       THEN EnterWriteWithRetry(i, "final")
       ELSE /\ wpc' = [wpc EXCEPT ![i] = "Stopped"]
            /\ UNCHANGED <<site, retries, attempts, reconnects>>
    /\ UNCHANGED <<cfgVars, extVars, ringVars, upVars, prodVars, mainVars, popVars, batch,
                   popped, statVars, pushed, inserted, flushed, discarded,
                   rr_window, skipped, ack_failures, acked, pending_at_start>>

\* // Final flush
W_FinalFlush(i) ==
    /\ wpc[i] = "final"
    /\ IF batch[i] # <<>>
       THEN EnterWriteWithRetry(i, "final")
       ELSE /\ wpc' = [wpc EXCEPT ![i] = "Stopped"]
            /\ UNCHANGED <<site, retries, attempts, reconnects>>
    /\ UNCHANGED <<cfgVars, extVars, ringVars, upVars, prodVars, mainVars, popVars, batch,
                   popped, statVars, pushed, inserted, flushed, discarded,
                   rr_window, skipped, ack_failures, acked, pending_at_start>>

writer_thread(i) ==
    \/ W_Connect(i) \/ W_LoopCond(i) \/ W_CheckEmpty(i) \/ pop_batch(i)
    \/ W_AfterPop(i) \/ write_batch(i) \/ W_Reconnect(i) \/ W_Discard(i)
    \/ W_OnFlush(i) \/ ack_batch(i)
    \/ W_FinalFlush(i)

(* ====================================================================== *)
(*      One ring buffer in isolation: one producer, one consumer          *)
(* ====================================================================== *)

\* The producer takes its next item (or keeps the one a failed try_push left
\* untouched) and calls try_push on buffer 0.
RB_ProducerCall ==
    /\ mainpc = "rb_idle"
    /\ entry # EmptyEntry \/ reply # <<>>
    /\ IF entry = EmptyEntry
       THEN /\ entry' = parse_message(Head(reply))
            /\ reply' = Tail(reply)
       ELSE UNCHANGED <<entry, reply>>
    /\ mainpc' = "tp_load_head"
    /\ UNCHANGED <<cfgVars, extVars, ringVars, upVars, prodVars, mode, start_idx,
                   current_buffer_idx_, count, messages_read_, g_running,
                   consumer_running, writer_running, popVars, workVars,
                   statVars, histVars>>

RB_ProducerReturn ==
    /\ mainpc = "tp_ret"
    /\ mainpc' = "rb_idle"
    /\ p_head' = 0
    /\ p_next_head' = 0
    /\ UNCHANGED <<cfgVars, extVars, ringVars, upVars, push_ret, mode, reply, entry,
                   start_idx, current_buffer_idx_, count, messages_read_,
                   g_running, consumer_running, writer_running, popVars,
                   workVars, statVars, histVars>>

RB_CallPopBatch ==
    /\ wpc[0] = "rb_idle"
    /\ \E m \in 0 .. MaxItems : c_max' = [c_max EXCEPT ![0] = m]
    /\ wpc' = [wpc EXCEPT ![0] = "pb_load_tail"]
    /\ UNCHANGED <<cfgVars, extVars, ringVars, upVars, prodVars, mainVars, c_tail, c_head,
                   c_count, c_current, c_k, c_item, batch, popped, retries,
                   site, statVars, histVars>>

RB_CallTryPop ==
    /\ wpc[0] = "rb_idle"
    /\ wpc' = [wpc EXCEPT ![0] = "pop_load_tail"]
    /\ UNCHANGED <<cfgVars, extVars, ringVars, upVars, prodVars, mainVars, popVars, batch,
                   popped, retries, site, statVars, histVars>>

\* The consumer keeps every item it got, in the order it got them, in batch[0].
RB_ConsumerReturn ==
    /\ wpc[0] \in {"pb_ret", "pop_ret"}
    /\ batch' = [batch EXCEPT ![0] =
                    IF wpc[0] = "pop_ret" /\ popped[0] = 1
                    THEN Append(@, c_item[0]) ELSE @]
    /\ c_item' = [c_item EXCEPT ![0] = EmptyEntry]
    /\ ResetPop(0)
    /\ wpc' = [wpc EXCEPT ![0] = "rb_idle"]
    /\ UNCHANGED <<cfgVars, extVars, ringVars, upVars, prodVars, mainVars, popped, retries,
                   site, statVars, histVars>>

InitCommon ==
    /\ head_ = [i \in Workers |-> 0]
    /\ tail_ = [i \in Workers |-> 0]
    /\ buffer_ = [i \in Workers |-> [s \in 0 .. (capacity_ - 1) |-> EmptyEntry]]
    /\ mode = "none"
    /\ entry = EmptyEntry
    /\ start_idx = 0
    /\ current_buffer_idx_ = 0
    /\ count = 0
    /\ p_head = 0
    /\ p_next_head = 0
    /\ push_ret = FALSE
    /\ messages_read_ = 0
    /\ g_running = TRUE
    /\ consumer_running = TRUE
    /\ writer_running = FALSE
    /\ batch = [i \in Workers |-> <<>>]
    /\ popped = [i \in Workers |-> 0]
    /\ retries = [i \in Workers |-> 0]
    /\ site = [i \in Workers |-> "none"]
    /\ c_tail = [i \in Workers |-> 0]
    /\ c_head = [i \in Workers |-> 0]
    /\ c_count = [i \in Workers |-> 0]
    /\ c_current = [i \in Workers |-> 0]
    /\ c_k = [i \in Workers |-> 0]
    /\ c_max = [i \in Workers |-> 0]
    /\ c_item = [i \in Workers |-> EmptyEntry]
    /\ logs_written_ = 0
    /\ batches_written_ = 0
    /\ errors_ = 0
    /\ pushed = [i \in Workers |-> <<>>]
    /\ inserted = [i \in Workers |-> <<>>]
    /\ flushed = {}
    /\ discarded = {}
    /\ attempts = [i \in Workers |-> 0]
    /\ reconnects = [i \in Workers |-> 0]
    /\ rr_window = <<>>
    /\ skipped = FALSE
    /\ ack_failures = 0
    /\ acked = {}
    /\ pending_at_start = pending
    /\ parse_errors_ = 0
    /\ s_pc = "idle"
    /\ s_head = 0
    /\ s_ret = 0
    /\ group_reply = "none"
    /\ recover_calls = 0
    /\ connect_failed = {}
    /\ write_mutex_ = Unlocked
    /\ ids = [i \in Workers |-> <<>>]
    /\ discards = 0
    /\ probe = NoProbe

InitRB ==
    /\ batch_size = 0
    /\ writer_threads = 1
    /\ requested \in 1 .. MaxRingRequest
    /\ capacity_ = next_power_of_2(requested)
    /\ last_delivered = 0
    /\ pending = {}
    /\ mainpc = "rb_idle"
    /\ reply = [k \in 1 .. MaxItems |-> k]
    /\ wpc = [i \in Workers |-> IF i = 0 THEN "rb_idle" ELSE "unstarted"]
    /\ InitCommon

NextRB ==
    \/ RB_ProducerCall
    \/ try_push
    \/ RB_ProducerReturn
    \/ RB_CallPopBatch
    \/ RB_CallTryPop
    \/ pop_batch(0)
    \/ try_pop(0)
    \/ RB_ConsumerReturn

SpecRB == InitRB /\ [][NextRB]_vars

(* ---- the constructor, given `requested` ------------------------------ *)

CtorArgs == (0 .. MaxCtorArg) \cup {default_ring_buffer_size}

\* The object before its constructor has run.
InitCtor ==
    /\ batch_size = 0
    /\ writer_threads = 1
    /\ requested \in CtorArgs
    /\ capacity_ = 0
    /\ last_delivered = 0
    /\ pending = {}
    /\ mainpc = "construct"
    /\ reply = <<>>
    /\ wpc = [i \in Workers |-> "unstarted"]
    /\ InitCommon

\* capacity_(next_power_of_2(capacity)), mask_(capacity_ - 1),
\* buffer_(capacity_), head_(0), tail_(0)
Construct ==
    /\ mainpc = "construct"
    /\ capacity_' = next_power_of_2(requested)
    /\ buffer_' = [i \in Workers |->
                      [k \in 0 .. (next_power_of_2(requested) - 1) |-> EmptyEntry]]
    /\ head_' = [i \in Workers |-> 0]
    /\ tail_' = [i \in Workers |-> 0]
    /\ mainpc' = "constructed"
    /\ UNCHANGED <<batch_size, writer_threads, extVars, upVars, prodVars, mode,
                   reply, entry, start_idx, current_buffer_idx_, count,
                   messages_read_, g_running, consumer_running, writer_running,
                   popVars, workVars, statVars, histVars>>

SpecCtor == InitCtor /\ [][Construct]_vars

(* ---- size(), called on buffer 0 by a thread that is neither the ------- *)
(* ---- producer nor the consumer                                         *)

S_Call ==
    /\ s_pc = "idle"
    /\ s_pc' = "size_load_head"
    /\ UNCHANGED <<s_head, s_ret>>
    /\ UNCHANGED <<cfgVars, ackVars, probe, requested, parse_errors_, group_reply, recover_calls,
                   connect_failed, ringVars, upVars, prodVars, mainVars, popVars,
                   workVars, statVars, histVars>>

\* const size_t head = head_.load(acquire);
S_LoadHead ==
    /\ s_pc = "size_load_head"
    /\ s_head' = head_[0]
    /\ s_pc' = "size_load_tail"
    /\ UNCHANGED s_ret
    /\ UNCHANGED <<cfgVars, ackVars, probe, requested, parse_errors_, group_reply, recover_calls,
                   connect_failed, ringVars, upVars, prodVars, mainVars, popVars,
                   workVars, statVars, histVars>>

\* Faulty variant: return head - tail, without the mask.
S_LoadTail_NoMask ==
    /\ s_pc = "size_load_tail"
    /\ s_ret' = SizeSub(s_head, tail_[0])
    /\ s_pc' = "size_ret"
    /\ UNCHANGED s_head
    /\ UNCHANGED <<cfgVars, ackVars, probe, requested, parse_errors_, group_reply, recover_calls,
                   connect_failed, ringVars, upVars, prodVars, mainVars, popVars,
                   workVars, statVars, histVars>>

\* const size_t tail = tail_.load(acquire); return (head - tail) & mask_;
S_LoadTail ==
    /\ s_pc = "size_load_tail"
    /\ s_ret' = BitAnd(SizeSub(s_head, tail_[0]), mask_)
    /\ s_pc' = "size_ret"
    /\ UNCHANGED s_head
    /\ UNCHANGED <<cfgVars, ackVars, probe, requested, parse_errors_, group_reply, recover_calls,
                   connect_failed, ringVars, upVars, prodVars, mainVars, popVars,
                   workVars, statVars, histVars>>

\* The caller has the result; the locals of the call are gone.
S_Return ==
    /\ s_pc = "size_ret"
    /\ s_pc' = "idle"
    /\ s_head' = 0
    /\ s_ret' = 0
    /\ UNCHANGED <<cfgVars, ackVars, probe, requested, parse_errors_, group_reply, recover_calls,
                   connect_failed, ringVars, upVars, prodVars, mainVars, popVars,
                   workVars, statVars, histVars>>

size == S_LoadHead \/ S_LoadTail

\* One producer, one consumer and a third thread that calls size().
NextRBSize == NextRB \/ S_Call \/ size \/ S_Return

SpecRBSize == InitRB /\ [][NextRBSize]_vars

(* ====================================================================== *)
(*                          The whole ingester                            *)
(* ====================================================================== *)

\* A fresh process and an upstream stream of MaxMsgs messages, none of them
\* delivered yet.
Init ==
    /\ batch_size \in 0 .. MaxBatchSize
    /\ writer_threads \in 1 .. MaxWriterThreads
    /\ requested = ring_buffer_size
    /\ capacity_ = next_power_of_2(requested)
    /\ last_delivered = 0
    /\ pending = {}
    /\ mainpc = "connect"
    /\ reply = <<>>
    /\ wpc = [i \in Workers |-> "unstarted"]
    /\ InitCommon

Next ==
    \/ Main
    \/ Signal
    \/ \E i \in Workers : W_Connect(i)
    \/ \E i \in Workers : W_LoopCond(i)
    \/ \E i \in Workers : W_CheckEmpty(i)
    \/ \E i \in Workers : pop_batch(i)
    \/ \E i \in Workers : W_AfterPop(i)
    \/ \E i \in Workers : write_batch(i)
    \/ \E i \in Workers : W_Reconnect(i)
    \/ \E i \in Workers : W_Discard(i)
    \/ \E i \in Workers : W_OnFlush(i)
    \/ \E i \in Workers : ack_batch(i)
    \/ \E i \in Workers : W_FinalFlush(i)

Spec == Init /\ [][Next]_vars

\* The same process with one worker and a ring buffer of capacity 4, which
\* can hold more entries than a batch.
InitBatch ==
    /\ batch_size \in 0 .. MaxBatchSize
    /\ writer_threads = 1
    /\ requested = LargeRingRequest
    /\ capacity_ = next_power_of_2(requested)
    /\ last_delivered = 0
    /\ pending = {}
    /\ mainpc = "connect"
    /\ reply = <<>>
    /\ wpc = [i \in Workers |-> "unstarted"]
    /\ InitCommon

SpecBatch == InitBatch /\ [][Next]_vars

\* The operating system schedules every thread that can take a step: the
\* main thread and each worker thread.  The signal is not fair: it may never
\* come.  (Every client.Insert and every XACK returns: write_batch and
\* W_OnFlush are steps of the worker.)
\* A restarted process: earlier runs of the same consumer name, ended or
\* killed at any point, have had the first last_delivered messages delivered
\* and have left some of them unacknowledged.
InitRestart ==
    /\ batch_size = MaxBatchSize
    /\ writer_threads \in 1 .. MaxWriterThreads
    /\ requested = ring_buffer_size
    /\ capacity_ = next_power_of_2(requested)
    /\ last_delivered \in 1 .. MaxMsgs
    /\ pending \in (SUBSET (1 .. last_delivered)) \ {{}}
    /\ mainpc = "connect"
    /\ reply = <<>>
    /\ wpc = [i \in Workers |-> "unstarted"]
    /\ InitCommon

SpecRestart == InitRestart /\ [][Next]_vars

\* catch (const std::exception&) { ++parse_errors_; } around parse_message
\* and the dispatch, in read_batch and in recover_pending: the strings
\* parse_message builds can throw (std::bad_alloc, std::length_error).  The
\* loop over the fields goes on and the message is pushed nowhere.
M_ParseError ==
    /\ mainpc = "msg_loop"
    /\ reply # <<>>
    /\ parse_errors_ < MaxParseFailures
    /\ parse_errors_' = parse_errors_ + 1
    /\ reply' = Tail(reply)
    /\ UNCHANGED <<cfgVars, ackVars, probe, requested, sizeVars, group_reply, recover_calls,
                   connect_failed, ringVars, upVars, prodVars, mainpc, mode,
                   entry, start_idx, current_buffer_idx_, count, messages_read_,
                   g_running, consumer_running, writer_running, popVars,
                   workVars, statVars, histVars>>

\* The ingester in runs where parse_message may throw.
NextParse == Next \/ M_ParseError

SpecParse == Init /\ [][NextParse]_vars

(* ---- read_batch and recover_pending on the same reply ----------------- *)

\* An entry that is in a ring buffer before the calls.
Filler == [redis_id |-> MaxMsgs + 1, level |-> "INFO"]

\* The ring buffers as they are before each of the two calls: buffer i
\* holds fill[i] entries.
FilledBuffers(fill) ==
    [i \in Workers |-> [x \in 0 .. (capacity_ - 1) |->
                           IF x < fill[i] THEN Filler ELSE EmptyEntry]]

\* main is about to call read_batch; no worker thread runs. The ring
\* buffers hold any number of entries, the rotation index is anywhere, and
\* parse_message throws for the messages in bad.
InitDispatch ==
    /\ batch_size = 0
    /\ writer_threads \in 1 .. MaxWriterThreads
    /\ requested \in {ring_buffer_size, LargeRingRequest}
    /\ capacity_ = next_power_of_2(requested)
    /\ last_delivered = 0
    /\ pending = {}
    /\ mainpc = "read_loop"
    /\ reply = <<>>
    /\ wpc = [i \in Workers |-> "unstarted"]
    /\ tail_ = [i \in Workers |-> 0]
    /\ head_ \in [Workers -> 0 .. (capacity_ - 1)]
    /\ buffer_ = FilledBuffers(head_)
    /\ current_buffer_idx_ \in Workers
    /\ \E bad \in {{}} \cup {{m} : m \in 1 .. read_batch_size} :
          probe = [phase |-> 1, fill |-> head_, idx |-> current_buffer_idx_,
                   bad |-> bad, ret |-> 0, head |-> head_, buffer |-> buffer_,
                   next_idx |-> 0, parse_errors |-> 0, messages_read |-> 0]
    /\ mode = "none"
    /\ entry = EmptyEntry
    /\ start_idx = 0
    /\ count = 0
    /\ p_head = 0
    /\ p_next_head = 0
    /\ push_ret = FALSE
    /\ messages_read_ = 0
    /\ g_running = TRUE
    /\ consumer_running = TRUE
    /\ writer_running = FALSE
    /\ batch = [i \in Workers |-> <<>>]
    /\ popped = [i \in Workers |-> 0]
    /\ retries = [i \in Workers |-> 0]
    /\ site = [i \in Workers |-> "none"]
    /\ c_tail = [i \in Workers |-> 0]
    /\ c_head = [i \in Workers |-> 0]
    /\ c_count = [i \in Workers |-> 0]
    /\ c_current = [i \in Workers |-> 0]
    /\ c_k = [i \in Workers |-> 0]
    /\ c_max = [i \in Workers |-> 0]
    /\ c_item = [i \in Workers |-> EmptyEntry]
    /\ logs_written_ = 0
    /\ batches_written_ = 0
    /\ errors_ = 0
    /\ pushed = [i \in Workers |-> <<>>]
    /\ inserted = [i \in Workers |-> <<>>]
    /\ flushed = {}
    /\ discarded = {}
    /\ attempts = [i \in Workers |-> 0]
    /\ reconnects = [i \in Workers |-> 0]
    /\ rr_window = <<>>
    /\ skipped = FALSE
    /\ ack_failures = 0
    /\ acked = {}
    /\ pending_at_start = {}
    /\ parse_errors_ = 0
    /\ s_pc = "idle"
    /\ s_head = 0
    /\ s_ret = 0
    /\ group_reply = "none"
    /\ recover_calls = 0
    /\ connect_failed = {}
    /\ write_mutex_ = Unlocked
    /\ ids = [i \in Workers |-> <<>>]
    /\ discards = 0

\* read_batch has returned. What it did is recorded (its return value is
\* the count it added to messages_read_), the ring buffers, the rotation
\* index and the counters are put back as they were before it, and main is
\* about to call recover_pending, to which the upstream hands the messages
\* just delivered and not acknowledged: the same reply.
D_Switch ==
    /\ probe.phase = 1
    /\ mainpc = "read_loop"
    /\ last_delivered > 0
    /\ probe' = [probe EXCEPT !.phase = 2, !.ret = messages_read_,
                              !.head = head_, !.buffer = buffer_,
                              !.next_idx = current_buffer_idx_,
                              !.parse_errors = parse_errors_,
                              !.messages_read = messages_read_]
    /\ head_' = probe.fill
    /\ buffer_' = FilledBuffers(probe.fill)
    /\ current_buffer_idx_' = probe.idx
    /\ pushed' = [i \in Workers |-> <<>>]
    /\ messages_read_' = 0
    /\ parse_errors_' = 0
    /\ rr_window' = <<>>
    /\ skipped' = FALSE
    /\ mainpc' = "recover"
    /\ UNCHANGED <<cfgVars, tail_, upVars, prodVars, mode, reply, entry, start_idx,
                   count, g_running, consumer_running, writer_running,
                   popVars, workVars, statVars, inserted, flushed, discarded,
                   attempts, reconnects, ack_failures, acked, pending_at_start,
                   requested, sizeVars, group_reply, recover_calls,
                   connect_failed, ackVars>>

\* The two calls one after the other; parse_message throws for the same
\* messages in both.
NextDispatch ==
    \/ probe.phase = 1 /\ last_delivered = 0 /\ M_ReadBatch
    \/ D_Switch
    \/ M_RecoverPending /\ mainpc' = "msg_loop"
    \/ (reply # <<>> => Head(reply) \notin probe.bad) /\ M_NextMessage
    \/ (reply # <<>> /\ Head(reply) \in probe.bad) /\ M_ParseError
    \/ try_push
    \/ M_AfterTryPush

SpecDispatch == InitDispatch /\ [][NextDispatch]_vars

FairSpec ==
    /\ Spec
    /\ WF_vars(Main)
    /\ \A i \in 0 .. (MaxWriterThreads - 1) : WF_vars(i \in Workers /\ writer_thread(i))


(* ====================================================================== *)
(*                              The claims                                *)
(* ====================================================================== *)

Ids(seq) == {seq[k].redis_id : k \in 1 .. Len(seq)} \ {0}

\* The ids of the rows the database accepted in this run.
InsertedIds == UNION {Ids(inserted[i]) : i \in Workers}

\* The ids of the entries whose try_push succeeded in this run.
PushedIds == UNION {Ids(pushed[i]) : i \in Workers}

RECURSIVE IsSubseq(_, _)
IsSubseq(s, t) ==
    IF s = <<>> THEN TRUE
    ELSE IF t = <<>> THEN FALSE
    ELSE IF Head(s) = Head(t) THEN IsSubseq(Tail(s), Tail(t))
    ELSE IsSubseq(s, Tail(t))

(* ------------------------------ C1 ------------------------------------ *)
\* C1: every id handed to the flush callback, and so every id sent in an
\* XACK, belongs to a batch whose insert returned successfully before; no id
\* of a batch that was dropped after the retries is acknowledged.
C1_AckOnlyAfterInsert ==
    /\ flushed \subseteq InsertedIds
    /\ acked \subseteq flushed
    /\ acked \cap discarded = {}

C1_Witness ==
    /\ acked # {}
    /\ discarded # {}
    /\ flushed # acked

(* ------------------------------ C2 ------------------------------------ *)
IsPrefix(s, t) == Len(s) <= Len(t) /\ \A k \in 1 .. Len(s) : s[k] = t[k]

\* Everything the consumer of buffer i holds: its collected items and the
\* item try_pop has moved out and is about to return.
PoppedSeq(i) ==
    IF c_item[i] # EmptyEntry THEN Append(batch[i], c_item[i]) ELSE batch[i]

\* C2: at every step-level interleaving of one producer and one consumer,
\* the items popped so far are a prefix of the items whose try_push
\* succeeded: nothing is lost, duplicated or reordered.
C2_FifoPrefix == IsPrefix(PoppedSeq(0), pushed[0])

C2_Witness ==
    /\ capacity_ = 4
    /\ Len(batch[0]) = MaxItems
    /\ batch[0] = pushed[0]
    /\ head_[0] = 0

(* ------------------------------ C3 ------------------------------------ *)
\* C3: for every worker i, the rows it inserted, over all its batches in
\* insert order, are in the order in which these entries were pushed into
\* ring buffer i (a dropped batch leaves a gap, never a permutation).
C3_PerWriterFifo == \A i \in Workers : IsSubseq(inserted[i], pushed[i])

C3_Witness ==
    \E i \in Workers :
        /\ inserted[i] = <<parse_message(1), parse_message(3)>>
        /\ pushed[i] = <<parse_message(1), parse_message(2), parse_message(3)>>
        /\ 2 \in discarded
        /\ batches_written_ = 2

(* ------------------------------ C4 ------------------------------------ *)
\* C4, its first half: when the single recover_pending call of a restarted
\* process has gone through its reply, every message that was pending for this
\* consumer at the restart has been put into a ring buffer.
C4_RecoverEnqueuesAllPending ==
    (mainpc = "msg_loop" /\ mode = "recover" /\ reply = <<>>)
        => pending_at_start \subseteq PushedIds

(* ------------------------------ C5 ------------------------------------ *)
\* C5: a batch gets at most 3 insert attempts; an attempt is made only when
\* every earlier attempt for the batch failed and was followed by a reconnect
\* attempt; the callback is reached right after the first success; after 3
\* failed attempts the batch is dropped: its ids are never handed to the
\* callback and it is no longer in the worker's batch.
C5_RetryBudget ==
    /\ \A i \in Workers :
        /\ attempts[i] <= 3
        /\ wpc[i] = "write" => (attempts[i] < 3 /\ reconnects[i] = attempts[i])
        /\ wpc[i] = "reconnect" => reconnects[i] + 1 = attempts[i]
        /\ (wpc[i] = "callback" /\ batch[i] # <<>>) => attempts[i] = reconnects[i] + 1
        /\ wpc[i] = "give_up" => (attempts[i] = 3 /\ reconnects[i] = 3)
        /\ wpc[i] # "give_up" => Ids(batch[i]) \cap discarded = {}
    /\ flushed \cap discarded = {}

C5_Witness ==
    \E i \in Workers :
        /\ wpc[i] = "loop"
        /\ batch[i] = <<>>
        /\ discarded = {1}
        /\ errors_ = 3
        /\ flushed = {}

(* ------------------------------ C6 ------------------------------------ *)
\* C6: a worker that has reached Stopped has an empty ring buffer and no
\* batch left.
C6_DrainBeforeExit ==
    \A i \in Workers :
        wpc[i] = "Stopped" => (head_[i] = tail_[i] /\ batch[i] = <<>>)

(* ------------------------------ C7 ------------------------------------ *)
\* writer.stop() has cleared running_ and is joining the threads; the main
\* thread, the only producer, pushes nothing any more.
ShutdownBegun == mainpc = "join"

\* C7: whatever the batch_size, once the running flag is cleared every worker
\* reaches Stopped and stop() returns.
C7_ShutdownTerminatesAnyBatchSize ==
    ShutdownBegun ~> (mainpc = "done" /\ \A i \in Workers : wpc[i] = "Stopped")

\* What does hold: with a batch_size of at least 1 the shutdown ends, whatever
\* the ring buffers hold and however the inserts end.
ShutdownTerminatesPositiveBatchSize ==
    (ShutdownBegun /\ batch_size >= 1) ~>
        (mainpc = "done" /\ \A i \in Workers : wpc[i] = "Stopped")

(* ------------------------------ C8 ------------------------------------ *)
\* C8: in a read_batch call, once an entry could not be pushed because every
\* ring buffer was full, no try_push of that call succeeds any more.
C8_StopsAfterAllFull ==
    ~(mode = "read" /\ skipped /\ mainpc = "tp_ret" /\ push_ret)

(* ------------------------------ C9 ------------------------------------ *)
Count(seq, a, b, i) == Cardinality({k \in a .. b : seq[k] = i})

\* C9: rr_window holds the buffers of the dispatches since the last failed
\* try_push, over all the calls of recover_pending and read_batch.  In any
\* run of consecutive dispatches of it, the numbers of entries two buffers
\* got differ by at most 1.
C9_RoundRobinFair ==
    \A a \in 1 .. Len(rr_window) : \A b \in a .. Len(rr_window) :
        \A i \in Workers : \A j \in Workers :
            Count(rr_window, a, b, i) - Count(rr_window, a, b, j) <= 1

C9_Witness ==
    /\ writer_threads = MaxWriterThreads
    /\ Len(rr_window) = MaxMsgs
    /\ mode = "read"
    /\ pending_at_start # {}

(* ------------------------------ C10 ----------------------------------- *)
\* C10: each step of try_push on buffer b.  The tail load returns false
\* exactly when (head + 1) mod capacity equals tail, and up to that return
\* nothing of the buffer or of the caller's item has changed.  Otherwise the
\* slot at the old head, and nothing else, receives the item, and then head,
\* and nothing else, advances by one modulo capacity and true is returned.
C10_TryPushStep ==
    LET b == current_buffer_idx_ IN
    /\ (mainpc = "tp_load_head" /\ mainpc' # mainpc)
          => UNCHANGED <<head_, tail_, buffer_, entry>>
    /\ (mainpc = "tp_load_tail" /\ mainpc' # mainpc)
          => /\ UNCHANGED <<head_, tail_, buffer_, entry>>
             /\ mainpc' \in {"tp_ret", "tp_write"}
             /\ (mainpc' = "tp_ret") <=> ((head_[b] + 1) % capacity_ = tail_[b])
             /\ (mainpc' = "tp_ret") => (push_ret' = FALSE)
    /\ (mainpc = "tp_write" /\ mainpc' # mainpc)
          => /\ buffer_' = [buffer_ EXCEPT ![b][head_[b]] = entry]
             /\ UNCHANGED <<head_, tail_>>
    /\ (mainpc = "tp_store" /\ mainpc' # mainpc)
          => /\ head_' = [head_ EXCEPT ![b] = (head_[b] + 1) % capacity_]
             /\ UNCHANGED <<tail_, buffer_>>
             /\ mainpc' = "tp_ret"
             /\ push_ret' = TRUE

C10_TryPush == [][C10_TryPushStep]_vars

C10_Witness ==
    /\ mainpc = "tp_ret"
    /\ ~push_ret
    /\ capacity_ = 2
    /\ Len(pushed[0]) = 2
    /\ entry = parse_message(3)
    /\ head_[0] < tail_[0]

(* ------------------------------ C11 ----------------------------------- *)
\* C11: each step of a pop_batch(out, max) call on buffer 0.  With head the
\* value the call observed and available = (head - tail) mod capacity, the
\* call settles on count = min(available, max); it appends the items of the
\* slots tail, tail + 1, ... (mod capacity) to out one by one, count of them
\* in all; it stores the tail cursor only in its last step, once, as
\* (tail + count) mod capacity, and returns count.  An empty buffer returns 0
\* without a store.
C11_PopBatchStep ==
    LET pc == wpc[0] IN
    /\ (pc = "pb_load_tail" /\ wpc'[0] # pc)
          => /\ c_tail'[0] = tail_[0]
             /\ UNCHANGED <<head_, tail_, buffer_, batch>>
    /\ (pc = "pb_load_head" /\ wpc'[0] # pc)
          => /\ UNCHANGED <<tail_, buffer_, batch>>
             /\ IF (head_[0] - c_tail[0]) % capacity_ = 0
                THEN wpc'[0] = "pb_ret" /\ popped'[0] = 0
                ELSE /\ wpc'[0] = "pb_move"
                     /\ c_k'[0] = 0
                     /\ c_count'[0] =
                            Min((head_[0] - c_tail[0]) % capacity_, c_max[0])
    /\ (pc = "pb_move" /\ c_k'[0] # c_k[0])
          => /\ c_k[0] < c_count[0]
             /\ c_k'[0] = c_k[0] + 1
             /\ batch'[0] =
                    Append(batch[0], buffer_[0][(c_tail[0] + c_k[0]) % capacity_])
             /\ UNCHANGED <<tail_, head_>>
    /\ (pc = "pb_move" /\ wpc'[0] # pc)
          => /\ c_k[0] = c_count[0]
             /\ wpc'[0] = "pb_store"
             /\ UNCHANGED <<tail_, batch>>
    /\ (pc = "pb_store" /\ wpc'[0] # pc)
          => /\ tail_'[0] = (c_tail[0] + c_count[0]) % capacity_
             /\ popped'[0] = c_count[0]
             /\ wpc'[0] = "pb_ret"
             /\ UNCHANGED batch
    /\ (pc = "pb_ret" /\ wpc'[0] = pc) => UNCHANGED tail_

C11_PopBatch == [][C11_PopBatchStep]_vars

\* A call that took two items out of a buffer of capacity 4 whose tail
\* cursor wrapped around.
C11_Witness ==
    /\ wpc[0] = "pb_ret"
    /\ popped[0] = 2
    /\ c_max[0] > 2
    /\ tail_[0] < c_tail[0]
    /\ capacity_ = 4

(* ------------------------------ C12 ----------------------------------- *)
\* The number of items of buffer 0 whose removal the consumer has published
\* with a store to the tail cursor.
PublishedPops ==
    Len(batch[0])
      - (IF wpc[0] \in {"pb_move", "pb_store"} THEN c_k[0] ELSE 0)
      + (IF wpc[0] = "pop_ret" /\ popped[0] = 1 THEN 1 ELSE 0)

\* The items pushed and not yet popped.
Occupancy == Len(pushed[0]) - PublishedPops

\* C12: in every state (head - tail) mod capacity is the number of items
\* pushed and not yet popped, and what size() returns to a third thread,
\* whatever the producer and the consumer did between its two loads, does
\* not exceed capacity().
C12_OccupancyAndSize ==
    /\ (head_[0] - tail_[0]) % capacity_ = Occupancy
    /\ s_pc = "size_ret" => s_ret <= capacity_

\* size() read head before a push and tail after the pop of that item: it
\* reports 3 for a buffer that holds nothing.
C12_Witness ==
    /\ s_pc = "size_ret"
    /\ capacity_ = 4
    /\ s_ret = 3
    /\ Occupancy = 0
    /\ Len(pushed[0]) >= 1

(* ------------------------------ C13 ----------------------------------- *)
RECURSIVE SumLen(_, _)
SumLen(f, S) ==
    IF S = {} THEN 0
    ELSE LET x == CHOOSE y \in S : TRUE IN Len(f[x]) + SumLen(f, S \ {x})

\* The ids of the messages the upstream delivered in this run.
ReadIds == 1 .. last_delivered

\* main has stopped the consumer and the writer pool after a run without a
\* fault: every worker connected, no insert and no XACK failed, no
\* parse_message threw, and no message found every ring buffer full (each
\* message read went into a ring buffer).
HappyPathDone ==
    /\ mainpc = "done"
    /\ connect_failed = {}
    /\ errors_ = 0
    /\ ack_failures = 0
    /\ parse_errors_ = 0
    /\ PushedIds = ReadIds

\* C13: after such a run logs_written equals the number of messages read,
\* every entry was inserted exactly once, write_errors is 0, every message
\* read was acknowledged and the pending list is empty.
C13_HappyPathConservation ==
    HappyPathDone =>
        /\ logs_written_ = messages_read_
        /\ messages_read_ = last_delivered
        /\ InsertedIds = ReadIds
        /\ SumLen(inserted, Workers) = last_delivered
        /\ errors_ = 0
        /\ acked = ReadIds
        /\ pending = {}

C13_Witness ==
    /\ HappyPathDone
    /\ last_delivered = MaxMsgs
    /\ writer_threads = MaxWriterThreads
    /\ batch_size = MaxBatchSize
    /\ batches_written_ >= 2

(* ------------------------------ C14 ----------------------------------- *)
\* C14 as claimed, at the model's scale: in a happy-path run whose messages
\* fill whole batches for every worker, the number of inserts is the same in
\* every interleaving: every insert carries batch_size entries.
C14_ExactBatchCount ==
    (HappyPathDone /\ batch_size >= 1
        /\ messages_read_ % (writer_threads * batch_size) = 0)
      => batches_written_ = messages_read_ \div batch_size

\* C14, amended: an insert carries at least one and at most batch_size
\* entries, so batches_written lies between logs_written / batch_size and
\* logs_written; where it ends in that range depends on the interleaving,
\* because a worker flushes a partial batch after one empty pop.
C14_BatchCountBounds ==
    /\ batches_written_ <= logs_written_
    /\ logs_written_ <= batches_written_ * batch_size

\* One worker, batch_size 2, two messages: two inserts of one entry each.
C14_Witness ==
    /\ HappyPathDone
    /\ writer_threads = 1
    /\ batch_size = 2
    /\ messages_read_ = 2
    /\ batches_written_ = 2

(* ------------------------------ C15 ----------------------------------- *)
\* The database was unreachable during the whole run: the initial connect of
\* every worker failed; messages were read; main has shut down.
OutageDone ==
    /\ mainpc = "done"
    /\ connect_failed = Workers
    /\ messages_read_ >= 1

\* C15: such a run ends with write_errors >= 1, no acknowledgment and every
\* message read still pending upstream.
C15_OutageCounted ==
    OutageDone =>
        /\ errors_ >= 1
        /\ acked = {}
        /\ ReadIds \subseteq pending

(* ------------------------------ C16 ----------------------------------- *)
\* main is inside a read_batch or recover_pending call, or in the read loop.
Reading == mainpc \in {"read_loop", "msg_loop", "tp_load_head", "tp_load_tail",
                       "tp_write", "tp_store", "tp_ret"}

\* C16: connect() fails, and main exits with 1, exactly when a connection
\* failed or XGROUP CREATE got neither a status nor the BUSYGROUP error; then
\* no worker thread was started and nothing was read or pushed.  Otherwise
\* every worker thread was started before an entry is pushed, and
\* recover_pending is called once, before the first read_batch.
C16_StartupOrder ==
    /\ mainpc = "exit1" <=> group_reply \in {"ERROR", "NULL", "unsent"}
    /\ mainpc = "start" <=> group_reply \in {"STATUS", "BUSYGROUP"}
    /\ mainpc = "exit1" =>
          /\ \A i \in Workers : wpc[i] = "unstarted"
          /\ ~writer_running
          /\ recover_calls = 0
          /\ last_delivered = 0 /\ messages_read_ = 0
          /\ PushedIds = {}
    /\ (PushedIds # {} \/ mainpc \in {"tp_write", "tp_store"}) =>
          \A i \in Workers : wpc[i] # "unstarted"
    /\ recover_calls <= 1
    /\ (mode = "read" \/ mainpc = "read_loop" \/ last_delivered > 0) =>
          recover_calls = 1
    /\ (mode = "recover" /\ Reading) => (recover_calls = 1 /\ last_delivered = 0)

\* read_batch has pushed an entry while a worker thread, started, has not
\* yet connected.
C16_Witness ==
    /\ mode = "read"
    /\ PushedIds # {}
    /\ recover_calls = 1
    /\ \E i \in Workers : wpc[i] = "connect"

(* ------------------------------ C17 ----------------------------------- *)
\* C17: no step decreases a statistics counter, and a step changes
\* logs_written or batches_written only if it is the return of a successful
\* insert by some worker: then logs_written grows by the size of that batch
\* and batches_written by 1.
C17_CounterStep ==
    /\ messages_read_' >= messages_read_
    /\ parse_errors_' >= parse_errors_
    /\ logs_written_' >= logs_written_
    /\ batches_written_' >= batches_written_
    /\ errors_' >= errors_
    /\ (logs_written_' # logs_written_ \/ batches_written_' # batches_written_)
          => \E i \in Workers :
                /\ wpc[i] = "write" /\ wpc'[i] = "callback"
                /\ batch[i] # <<>>
                /\ inserted'[i] = inserted[i] \o batch[i]
                /\ logs_written_' = logs_written_ + Len(batch[i])
                /\ batches_written_' = batches_written_ + 1

C17_Counters == [][C17_CounterStep]_vars

C17_Witness ==
    /\ messages_read_ >= 2
    /\ parse_errors_ >= 1
    /\ logs_written_ >= 1
    /\ batches_written_ >= 1
    /\ errors_ >= 1

(* ------------------------------ C18 ----------------------------------- *)
\* The number of steps the producer's call has left at most.
RankPush ==
    CASE mainpc = "tp_load_head" -> 4
      [] mainpc = "tp_load_tail" -> 3
      [] mainpc = "tp_write"     -> 2
      [] mainpc = "tp_store"     -> 1
      [] OTHER                   -> 0

\* The number of steps the consumer's call has left at most: a function of
\* the call's argument and locals only.
RankPop ==
    CASE wpc[0] = "pb_load_tail"  -> Min(c_max[0], capacity_) + 4
      [] wpc[0] = "pb_load_head"  -> Min(c_max[0], capacity_) + 3
      [] wpc[0] = "pb_move"       -> (c_count[0] - c_k[0]) + 2
      [] wpc[0] = "pb_store"      -> 1
      [] wpc[0] = "pop_load_tail" -> 4
      [] wpc[0] = "pop_load_head" -> 3
      [] wpc[0] = "pop_move"      -> 2
      [] wpc[0] = "pop_store"     -> 1
      [] OTHER                    -> 0

\* C18: a thread inside try_push, try_pop or pop_batch can always take its
\* next step, whatever the cursors hold; each of its steps brings the call
\* strictly nearer to its return, the steps of the other thread leave that
\* distance unchanged, and pop_batch moves at most min(capacity - 1, max)
\* slots.
C18_WaitFreeStep ==
    /\ RankPush > 0 => ENABLED try_push
    /\ RankPop > 0 => ENABLED (pop_batch(0) \/ try_pop(0))
    /\ RankPush > 0 =>
          \/ RankPush' < RankPush
          \/ RankPush' = RankPush /\ UNCHANGED <<mainpc, prodVars>>
    /\ RankPop > 0 =>
          \/ RankPop' < RankPop
          \/ RankPop' = RankPop /\ UNCHANGED <<wpc, popVars, batch>>
    /\ wpc[0] = "pb_move" =>
          (c_count[0] <= c_max[0] /\ c_count[0] <= capacity_ - 1)

C18_WaitFree == [][C18_WaitFreeStep]_vars

\* The producer is stalled in the middle of a try_push while the consumer
\* has completed a pop_batch of two items.
C18_Witness ==
    /\ mainpc = "tp_write"
    /\ wpc[0] = "pb_ret"
    /\ popped[0] = 2

(* ------------------------------ C19 ----------------------------------- *)
IsPowerOfTwo(c) == \E k \in 0 .. 30 : c = 2 ^ k

\* C19: the constructed buffer's capacity() is the smallest power of two
\* that is at least the capacity asked for.
C19_SmallestPowerOfTwo ==
    mainpc = "constructed" =>
        /\ IsPowerOfTwo(capacity_)
        /\ capacity_ >= requested
        /\ capacity_ \div 2 < requested

\* What does hold: the rounding is right for every request of at least 1,
\* and 100000 yields 131072.
PowerOfTwoFromOne ==
    (mainpc = "constructed" /\ requested >= 1) =>
        /\ IsPowerOfTwo(capacity_)
        /\ capacity_ >= requested
        /\ capacity_ \div 2 < requested
        /\ requested = default_ring_buffer_size => capacity_ = 131072

(* ------------------------------ C20 ----------------------------------- *)
\* The level an entry decoded from message m must carry.
ExpectedLevel(m) ==
    IF PayloadLevel(m) \in {"DEBUG", "INFO", "WARN", "ERROR", "FATAL"}
    THEN PayloadLevel(m) ELSE "INFO"

\* C20, the decoding step: the entry made from the next message has the
\* level of the payload if that is one of the five, and INFO otherwise;
\* parse_errors is not bumped and the entry goes on to the dispatch.
C20_DecodeStep ==
    (mainpc = "msg_loop" /\ mainpc' = "tp_load_head") =>
        /\ entry'.redis_id = Head(reply)
        /\ entry'.level = ExpectedLevel(Head(reply))
        /\ parse_errors_' = parse_errors_

\* C20: every decoding step is as above, and every row inserted carries the
\* level so decoded.
C20_LevelCoercion ==
    /\ [][C20_DecodeStep]_vars
    /\ [](\A i \in Workers : \A k \in 1 .. Len(inserted[i]) :
             inserted[i][k].level = ExpectedLevel(inserted[i][k].redis_id))

\* The messages with level ERROR (1), with level VERBOSE (2) and without
\* level (3) are in the table, the first as ERROR and the others as INFO,
\* with no parse error counted.
C20_Witness ==
    /\ {1, 2, 3} \subseteq InsertedIds
    /\ parse_errors_ = 0
    /\ \A i \in Workers : \A k \in 1 .. Len(inserted[i]) :
          inserted[i][k].level =
              IF inserted[i][k].redis_id = 1 THEN "ERROR" ELSE "INFO"

(* ---------------------------------------------------------------------- *)
(* C21: write_errors counts the discarded batches                         *)
(* ---------------------------------------------------------------------- *)

\* No worker is inside write_with_retry or the callback that follows it.
NoFlushInProgress == \A i \in Workers : site[i] = "none"

\* C21: write_errors is the number of batches discarded after 3 attempts
\* without success: one per discarded batch, and nothing for a batch whose
\* insert succeeds within the retry budget. Stated between flushes.
C21_ErrorsCountDiscards == NoFlushInProgress => errors_ = discards

(* ---------------------------------------------------------------------- *)
(* C22: slot exclusivity between the producer and the consumer            *)
(* ---------------------------------------------------------------------- *)

\* The slots of buffer 0 between the published tail and the published head:
\* their writes are complete and published, their items not yet released.
LiveSlots ==
    {BitAnd(tail_[0] + j, mask_) :
        j \in 0 .. (BitAnd(head_[0] - tail_[0] + capacity_, mask_) - 1)}

\* The slots the consumer's current call has still to read.
ConsumerSlots ==
    IF wpc[0] = "pb_move"
    THEN {BitAnd(c_current[0] + j, mask_) : j \in 0 .. (c_count[0] - c_k[0] - 1)}
    ELSE IF wpc[0] = "pop_move" THEN {c_tail[0]} ELSE {}

\* C22: in every state reached by interleaving the steps of one producer
\* and one consumer, the slot the producer is about to write holds no item
\* (it is neither between tail and head nor one the consumer has still to
\* move out), and every slot the consumer is about to read holds an item
\* whose write is complete and published (the producer is not writing it).
C22_SlotExclusivity ==
    /\ mainpc = "tp_write" =>
          /\ p_head \notin LiveSlots
          /\ p_head \notin ConsumerSlots
          /\ buffer_[0][p_head] = EmptyEntry
    /\ \A x \in ConsumerSlots :
          /\ x \in LiveSlots
          /\ buffer_[0][x] # EmptyEntry
          /\ ~(mainpc \in {"tp_write", "tp_store"} /\ p_head = x)

\* The producer is about to write one slot while the consumer is in the
\* middle of moving items out of others.
C22_Witness ==
    /\ mainpc = "tp_write"
    /\ wpc[0] = "pb_move"
    /\ c_k[0] >= 1
    /\ ConsumerSlots # {}
    /\ p_head \notin ConsumerSlots
    /\ buffer_[0][c_current[0]] # EmptyEntry

(* ---------------------------------------------------------------------- *)
(* C23: shutdown ordering                                                 *)
(* ---------------------------------------------------------------------- *)

\* The writer pool was started and its running flag has been cleared.
WriterFlagCleared == ~writer_running /\ \A i \in Workers : wpc[i] # "unstarted"

\* C23, the steps after the flag is cleared: no step publishes an item in a
\* ring buffer, and a ring buffer that is empty stays empty.
C23_NoPushStep ==
    WriterFlagCleared =>
        /\ head_' = head_
        /\ pushed' = pushed
        /\ \A i \in Workers : head_[i] = tail_[i] => head_'[i] = tail_'[i]

\* C23: the consumer is stopped before the writer pool's running flag is
\* cleared, so that once it is cleared the main thread is in no try_push and
\* never in one again; a ring buffer that its worker finds empty from then
\* on stays empty.
C23_ShutdownOrder ==
    /\ [](WriterFlagCleared =>
             (~consumer_running /\ mainpc \in {"join", "done"}))
    /\ [][C23_NoPushStep]_vars

\* After the flag was cleared a worker has found its ring buffer empty and
\* is at the final flush with entries it popped before; the ring buffers
\* have carried entries.
C23_Witness ==
    /\ WriterFlagCleared
    /\ \E i \in Workers :
          /\ wpc[i] = "final"
          /\ batch[i] # <<>>
          /\ head_[i] = tail_[i]
          /\ pushed[i] # <<>>

(* ---------------------------------------------------------------------- *)
(* C24: idle flush                                                        *)
(* ---------------------------------------------------------------------- *)

\* Worker i is inside the flush of its batch: write_with_retry or the
\* callback after it.
Flushing(i) == wpc[i] \in {"write", "reconnect", "give_up", "callback",
                           "ack_lock", "ack_cmd"}

\* C24, one worker step: when pop_batch has returned 0 and the local batch
\* is not empty, the step after the pop starts the flush of that batch; and
\* a step that ends a flush leaves the local batch empty, each of its
\* entries inserted or discarded.
C24_IdleFlushStep ==
    \A i \in Workers :
        /\ (wpc[i] = "pb_ret" /\ popped[i] = 0 /\ batch[i] # <<>>
              /\ wpc'[i] # "pb_ret") =>
               (wpc'[i] = "write" /\ batch'[i] = batch[i])
        /\ (Flushing(i) /\ ~Flushing(i)') =>
               /\ batch'[i] = <<>>
               /\ Ids(batch[i]) \subseteq (InsertedIds' \cup discarded')

\* C24: every step is as above, so that a non-empty local batch does not
\* survive a loop iteration whose pop was empty; and under fair scheduling
\* no entry stays in a local batch for ever: again and again all the local
\* batches are empty, their entries flushed or discarded.
C24_IdleFlush ==
    /\ [][C24_IdleFlushStep]_vars
    /\ []<>(\A i \in Workers : batch[i] = <<>>)

\* A worker flushes a partial batch after an empty pop while main is still
\* reading.
C24_Witness ==
    \E i \in Workers :
        /\ wpc[i] = "write"
        /\ site[i] = "idle"
        /\ batch[i] # <<>>
        /\ Len(batch[i]) < batch_size
        /\ writer_running

(* ---------------------------------------------------------------------- *)
(* C25: progress of the enqueued entries                                  *)
(* ---------------------------------------------------------------------- *)

\* C25: under weak fairness of the main thread and of every worker, each
\* entry whose try_push succeeded is eventually part of a successful insert,
\* with its id passed to the flush callback, or part of a batch discarded
\* after the retries were used up.
C25_EnqueuedProgress ==
    \A m \in MsgIds :
        (m \in PushedIds) ~> ((m \in InsertedIds /\ m \in flushed) \/ m \in discarded)

(* ---------------------------------------------------------------------- *)
(* C26: what the flush callback is given                                  *)
(* ---------------------------------------------------------------------- *)

\* The non-empty upstream ids of the entries of b, in the order of b.
NonEmptyIdsInOrder(b) ==
    SelectSeq([k \in 1 .. Len(b) |-> b[k].redis_id], LAMBDA x : x # 0)

\* C26, one step of worker i.
C26_FlushStep(i) ==
    LET expected == NonEmptyIdsInOrder(batch[i])
        returned == /\ batch'[i] = <<>>
                    /\ wpc'[i] = (IF site[i] = "final" THEN "Stopped" ELSE "loop")
    IN
    \* the callback is reached by a successful write_batch, and only so
    /\ (wpc[i] # "callback" /\ wpc'[i] = "callback") =>
           /\ wpc[i] = "write"
           /\ site[i] \in {"full", "idle", "final"}
           /\ batch'[i] = batch[i]
           /\ inserted'[i] = inserted[i] \o batch[i]
    \* it is called once, with the non-empty ids of the batch in batch
    \* order; for an empty list no command follows
    /\ (wpc[i] = "callback" /\ wpc'[i] # "callback") =>
           /\ flushed' = flushed \cup SeqRange(expected)
           /\ IF expected = <<>>
              THEN returned /\ pending' = pending /\ acked' = acked
              ELSE /\ wpc'[i] = "ack_lock"
                   /\ ids'[i] = expected
                   /\ batch'[i] = batch[i]
    \* until the command is sent the list and the batch stay as they are
    /\ (wpc[i] = "ack_lock") =>
           /\ ids'[i] = ids[i] /\ batch'[i] = batch[i]
           /\ wpc'[i] \in {"ack_lock", "ack_cmd"}
    \* one command carries all the ids; then the batch is cleared
    /\ (wpc[i] = "ack_cmd" /\ wpc'[i] # "ack_cmd") =>
           /\ ids[i] = expected
           /\ \/ pending' = pending \ SeqRange(expected)
                    /\ acked' = acked \cup SeqRange(expected)
              \/ pending' = pending /\ acked' = acked
           /\ returned
    \* no other step of the worker acknowledges anything
    /\ (wpc[i] \notin {"ack_cmd"} /\ wpc'[i] # wpc[i]) => acked' = acked

\* C26: every successful flush, at any of the three sites, calls the flush
\* callback once with exactly the non-empty ids of the batch in batch order;
\* this makes at most one acknowledgment command, carrying all those ids,
\* and none for an empty list; the local batch is cleared afterwards.
C26_FlushCallback == [][\A i \in Workers : C26_FlushStep(i)]_vars

\* One worker sends the ids of a full batch of two entries while the other
\* waits for the lock with the id of a partial batch flushed when idle.
C26_Witness ==
    /\ writer_threads = 2
    /\ \E i, j \in Workers :
          /\ wpc[i] = "ack_cmd" /\ site[i] = "full" /\ Len(ids[i]) = 2
          /\ wpc[j] = "ack_lock" /\ site[j] = "idle" /\ Len(ids[j]) = 1

(* ---------------------------------------------------------------------- *)
(* C27: a failed acknowledgment is dropped                                *)
(* ---------------------------------------------------------------------- *)

\* The number of times id m was inserted, over all workers.
TimesInserted(m) ==
    SumLen([i \in Workers |-> SelectSeq(inserted[i], LAMBDA e : e.redis_id = m)],
           Workers)

\* C27, the step in which the acknowledgment command of worker i fails in
\* transport: ack_batch returns (the lock released, the worker back in its
\* loop or at its end, not at the command again), the batch is cleared as
\* after a successful ack, no statistics counter moves, nothing is inserted
\* and the ids stay pending upstream.
C27_AckFailureStep ==
    \A i \in Workers :
        (wpc[i] = "ack_cmd" /\ ack_failures' # ack_failures) =>
            /\ wpc'[i] = (IF site[i] = "final" THEN "Stopped" ELSE "loop")
            /\ write_mutex_' = Unlocked
            /\ batch'[i] = <<>>
            /\ ids'[i] = <<>>
            /\ <<logs_written_, batches_written_, errors_, parse_errors_,
                 messages_read_>>' =
               <<logs_written_, batches_written_, errors_, parse_errors_,
                 messages_read_>>
            /\ inserted' = inserted
            /\ pending' = pending /\ acked' = acked
            /\ SeqRange(ids[i]) \subseteq pending

\* C27: every failing acknowledgment step is as above; an id whose flush
\* was not acknowledged stays pending upstream, and no entry is inserted a
\* second time in the run.
C27_AckFailureDropped ==
    /\ [][C27_AckFailureStep]_vars
    /\ []((flushed \ acked) \subseteq pending)
    /\ [](\A m \in MsgIds : TimesInserted(m) <= 1)

\* The run is over; the acknowledgment of an inserted entry was lost and the
\* entry is still pending upstream, inserted once.
C27_Witness ==
    /\ mainpc = "done"
    /\ ack_failures = 1
    /\ \E m \in MsgIds :
          /\ m \in flushed /\ m \notin acked /\ m \in pending
          /\ TimesInserted(m) = 1

(* ---------------------------------------------------------------------- *)
(* C28: the two upstream connections                                      *)
(* ---------------------------------------------------------------------- *)

\* The threads that are issuing a command on the writer connection.
WriteIssuers ==
    {HeldBy(i) : i \in {w \in Workers : wpc[w] = "ack_cmd"}}
        \cup (IF mainpc = "group_cmd" THEN {HeldByMain} ELSE {})

\* C28, the reader connection: the upstream cursor and the reply being
\* processed change only in steps of the main thread's recover_pending and
\* read_batch, in which no worker moves.
C28_ReaderStep ==
    (last_delivered' # last_delivered \/ (reply = <<>> /\ reply' # <<>>)) =>
        /\ mainpc \in {"recover", "read_loop"}
        /\ wpc' = wpc

\* C28: at most one thread at a time issues a command on the writer
\* connection, and it is the holder of the write mutex; the main thread
\* does not hold the mutex while it recovers or reads, so a worker that
\* waits for the mutex waits for another worker's ack, which can complete:
\* the mutex is never held by a thread that cannot go on. The reader
\* connection is used by the main thread only.
C28_ConnectionSeparation ==
    /\ [](Cardinality(WriteIssuers) <= 1)
    /\ [](WriteIssuers = (IF write_mutex_ = Unlocked THEN {} ELSE {write_mutex_}))
    /\ []((Reading \/ mainpc = "recover") => write_mutex_ # HeldByMain)
    /\ [](\A i \in Workers :
             (wpc[i] = "ack_lock" /\ write_mutex_ # Unlocked) =>
                 \E j \in Workers \ {i} :
                     write_mutex_ = HeldBy(j) /\ ENABLED AB_Command(j))
    /\ [](mainpc = "group_cmd" => ENABLED M_EnsureGroup)
    /\ [][C28_ReaderStep]_vars

\* One worker holds the mutex and sends its ack, the other waits for the
\* mutex, and the main thread is in read_batch.
C28_Witness ==
    /\ writer_threads = 2
    /\ mainpc \in {"msg_loop", "tp_load_head", "tp_load_tail", "tp_write", "tp_store"}
    /\ mode = "read"
    /\ \E i, j \in Workers :
          /\ wpc[i] = "ack_cmd" /\ write_mutex_ = HeldBy(i)
          /\ wpc[j] = "ack_lock"

(* ---------------------------------------------------------------------- *)
(* C29: the bound on the local batch                                      *)
(* ---------------------------------------------------------------------- *)

\* C29, one step of worker i: pop_batch is entered with the local batch no
\* larger than batch_size and with max_count the exact difference (the
\* unsigned subtraction does not wrap), and an insert carries the local
\* batch, at most batch_size entries.
C29_BatchStep ==
    \A i \in Workers :
        /\ (wpc[i] \in {"loop", "check_empty"} /\ wpc'[i] = "pb_load_tail") =>
               /\ Len(batch[i]) <= batch_size
               /\ c_max'[i] = batch_size - Len(batch[i])
               /\ c_max'[i] >= 0
        /\ (inserted'[i] # inserted[i]) =>
               /\ inserted'[i] = inserted[i] \o batch[i]
               /\ Len(batch[i]) <= batch_size

\* C29: in every reachable state the local batch of a worker holds at most
\* batch_size entries, and every step is as above.
C29_BatchBound ==
    /\ [](\A i \in Workers : Len(batch[i]) <= batch_size)
    /\ [][C29_BatchStep]_vars

\* The worker holds one entry and its ring buffer two more; it has entered
\* pop_batch with max_count 1, which cuts the pop down to one entry.
C29_Witness ==
    /\ batch_size = 2
    /\ wpc[0] = "pb_move"
    /\ c_max[0] = 1
    /\ c_count[0] = 1
    /\ Available(c_head[0], c_tail[0]) = 2
    /\ Len(batch[0]) = 1

(* ---------------------------------------------------------------------- *)
(* C30: no entry is shared between workers                                *)
(* ---------------------------------------------------------------------- *)

\* The number of entries with id m in the sequences f[i], i a worker.
Copies(f, m) ==
    SumLen([i \in Workers |-> SelectSeq(f[i], LAMBDA e : e.redis_id = m)], Workers)

\* The number of ring buffer slots, over all the ring buffers, that hold
\* an entry with id m.
SlotCopies(m) ==
    Cardinality({<<i, x>> \in Workers \X (0 .. (capacity_ - 1)) :
                    buffer_[i][x].redis_id = m})

\* C30, a try_push that returns false has changed no ring buffer.
C30_FailedPushStep ==
    (mainpc = "tp_load_tail" /\ mainpc' = "tp_ret") =>
        (~push_ret' /\ buffer_' = buffer_ /\ head_' = head_ /\ pushed' = pushed)

\* C30: each message decoded from a delivery is pushed into at most one ring
\* buffer: at any time at most one slot and one local batch hold it (or the
\* entry main is dispatching), and it is inserted at most once, so by one
\* worker.
C30_NoSharedEntry ==
    /\ [](\A m \in MsgIds :
             /\ Copies(pushed, m) <= 1
             /\ Copies(inserted, m) <= 1
             /\ SlotCopies(m) + Copies(batch, m)
                    + (IF entry.redis_id = m THEN 1 ELSE 0) <= 1)
    /\ [][C30_FailedPushStep]_vars

\* With two workers a message was refused by the full ring buffer probed
\* first and has just been pushed, once, into the other.
C30_Witness ==
    /\ writer_threads = 2
    /\ mainpc = "tp_ret"
    /\ push_ret
    /\ current_buffer_idx_ # start_idx
    /\ \E m \in MsgIds :
          /\ Copies(pushed, m) = 1
          /\ pushed[current_buffer_idx_][Len(pushed[current_buffer_idx_])].redis_id = m

(* ---------------------------------------------------------------------- *)
(* C31: recover_pending against read_batch                                *)
(* ---------------------------------------------------------------------- *)

\* recover_pending returns, after read_batch was run on the same reply from
\* the same ring buffers and rotation index.
RecoverReturns ==
    /\ probe.phase = 2
    /\ mode = "recover"
    /\ mainpc = "msg_loop"
    /\ mainpc' = "read_loop"

\* What the two calls do to the ring buffers and the rotation index, what
\* they return and what they add to parse_errors is the same.
SameDispatch ==
    /\ head_' = probe.head
    /\ buffer_' = probe.buffer
    /\ current_buffer_idx_' = probe.next_idx
    /\ count = probe.ret
    /\ parse_errors_' = probe.parse_errors

\* C31: given the same reply, ring buffers and rotation index,
\* recover_pending leaves the same ring buffer contents and rotation index
\* as read_batch, returns the same value and changes messages_read and
\* parse_errors by the same amounts.
C31_RecoverLikeRead ==
    [][RecoverReturns => (SameDispatch /\ messages_read_' = probe.messages_read)]_vars

\* Apart from messages_read the two calls do the same.
RecoverLikeReadButCounter == [][RecoverReturns => SameDispatch]_vars

\* recover_pending has returned after read_batch pushed one message of the
\* reply and found every ring buffer full for the other.
RecoverComparedAfterFull ==
    /\ probe.phase = 2
    /\ mainpc = "read_loop"
    /\ recover_calls = 1
    /\ probe.ret = 1
    /\ probe.bad = {}
    /\ skipped

(* ---------------------------------------------------------------------- *)
(* C32: the usable capacity                                               *)
(* ---------------------------------------------------------------------- *)

\* The slots of buffer 0 that hold an item.
FilledSlots == {x \in 0 .. (capacity_ - 1) : buffer_[0][x] # EmptyEntry}

\* C32, the full test of try_push: it refuses the item exactly when
\* capacity() - 1 items are stored at that moment.
C32_FullTestStep ==
    (mainpc = "tp_load_tail" /\ mainpc' # mainpc) =>
        /\ mainpc' \in {"tp_ret", "tp_write"}
        /\ (mainpc' = "tp_ret" /\ ~push_ret')
              <=> ((head_[0] - tail_[0]) % capacity_ = capacity_ - 1)

\* C32: a ring buffer never holds more than capacity() - 1 items, counted as
\* pushed and not yet popped, by the cursors, or as slots filled; try_push
\* fails exactly when capacity() - 1 items are stored; and a buffer asked
\* for with capacity 1 has capacity() 1 and never accepts an item.
C32_UsableCapacity ==
    /\ [](/\ Occupancy <= capacity_ - 1
          /\ (head_[0] - tail_[0]) % capacity_ <= capacity_ - 1
          /\ Cardinality(FilledSlots) <= capacity_ - 1
          /\ (head_[0] = tail_[0]) <=> (Occupancy = 0)
          /\ requested = 1 =>
                (capacity_ = 1 /\ pushed[0] = <<>> /\ ~push_ret
                   /\ mainpc \notin {"tp_write", "tp_store"}))
    /\ [][C32_FullTestStep]_vars

\* A buffer of capacity 4 holds 3 items and try_push has just refused the
\* fourth.
C32_Witness ==
    /\ capacity_ = 4
    /\ Occupancy = 3
    /\ Cardinality(FilledSlots) = 3
    /\ mainpc = "tp_ret"
    /\ ~push_ret
    /\ entry # EmptyEntry

====
